---- MODULE Spec2Model ----
(***************************************************************************)
(* A model of docs-scraper: the buffered / per-page persistence layer      *)
(* (src/src/docs_crawler/persistence.py) and the recursive crawl           *)
(* orchestrator (src/docs_crawler.py).                                     *)
(*                                                                         *)
(* Strings are sequences of tokens.  A token is either one of the          *)
(* separators the code inspects ("http://", "https://", "www.", "/", "?",  *)
(* "#", " ") or an atom standing for a run of other characters.            *)
(***************************************************************************)
EXTENDS Integers, Sequences, FiniteSets, TLC

\* Python's None, where a string is expected
None == <<"None">>

(***************************************************************************)
(* String helpers                                                          *)
(***************************************************************************)

\* index of the first token of s that lies in set T, or Len(s)+1
RECURSIVE FirstIn(_, _, _)
FirstIn(s, T, i) ==
    IF i > Len(s) THEN Len(s) + 1
    ELSE IF s[i] \in T THEN i
    ELSE FirstIn(s, T, i + 1)

\* text contains block as a contiguous run of tokens
IsInfix(block, text) ==
    \E i \in 0..(Len(text) - Len(block)) : SubSeq(text, i + 1, i + Len(block)) = block

\* str.strip() on a content string: drop leading and trailing whitespace
RECURSIVE LStrip(_)
LStrip(s) == IF s # <<>> /\ Head(s) = " " THEN LStrip(Tail(s)) ELSE s

RECURSIVE RStrip(_)
RStrip(s) ==
    IF s # <<>> /\ s[Len(s)] = " " THEN RStrip(SubSeq(s, 1, Len(s) - 1)) ELSE s

Strip(s) == RStrip(LStrip(s))

\* `not content or not content.strip()`
IsBlankAsNever(content) == FALSE

IsBlank(content) == content = <<>> \/ Strip(content) = <<>>

\* urlparse(url): scheme, netloc, path, query, fragment as token sequences
Schemes == {"http://", "https://"}

HasScheme(url) == url # <<>> /\ url[1] \in Schemes

AfterScheme(url) == IF HasScheme(url) THEN Tail(url) ELSE url

Netloc(url) ==
    IF HasScheme(url)
    THEN SubSeq(AfterScheme(url), 1, FirstIn(AfterScheme(url), {"/", "?", "#"}, 1) - 1)
    ELSE <<>>

AfterNetloc(url) ==
    SubSeq(AfterScheme(url), Len(Netloc(url)) + 1, Len(AfterScheme(url)))

UrlPath(url) ==
    SubSeq(AfterNetloc(url), 1, FirstIn(AfterNetloc(url), {"?", "#"}, 1) - 1)

\* parsed.hostname: None when the URL has no network location
Hostname(url) == IF Netloc(url) = <<>> THEN None ELSE Netloc(url)

\* extract_domain: hostname or "", with a leading www. removed
extract_domain(url) ==
    LET domain == IF Hostname(url) = None THEN <<>> ELSE Hostname(url)
    IN  IF domain # <<>> /\ domain[1] = "www." THEN Tail(domain) ELSE domain


(***************************************************************************)
(* Persistence layer: src/src/docs_crawler/persistence.py                  *)
(***************************************************************************)

\* bounds of the persistence model
MaxSaves == 3
MaxFinalizes == 2
MaxIOFailures == 1
\* number of content characters that stand for 1024 * 1024 bytes
MBScale == 2

max_file_name_len == 120

\* inputs of save(url, content)
SaveUrls ==
    { <<"https://", "a.com", "/", "p1">>,
      <<"https://", "www.", "a.com", "/", "p2">>,
      <<"https://", "b.org", "/">> }

SaveContents == { <<>>, <<" ">>, <<"x">> }

\* the URL save_transcript hands to save() for a video id
YoutubeUrl(video_id) ==
    <<"https://", "www.", "youtube.com", "/", "watch", "?", "v=", video_id>>

VideoIds == {"id1", "id2"}

\* a path of 120 letters
LongPath == <<"a87", "a30", "a3">>

\* URLs that differ in the query string, in a separator of the path, or in the
\* last character of a path of more than 120 characters
PathUrls ==
    { <<"https://", "a.com", "/", "p", "?", "x=1">>,
      <<"https://", "a.com", "/", "p", "?", "x=2">>,
      <<"https://", "a.com", "/", "p", "/", "q">>,
      <<"https://", "a.com", "/", "p", "_", "q">> }
    \cup { YoutubeUrl(v) : v \in VideoIds }
    \cup { <<"https://", "a.com", "/">> \o LongPath \o last :
              last \in { <<"X">>, <<"Y">>, <<"X", ".md">>, <<"Y", ".md">> } }

PathContents == { <<"x">>, <<"y">> }

\* configurations handed to create_persistence_strategy
BufferSizes == {2, 3}
FlushSizesMB == {1, 2}

\* number of characters of a token; "a87", "a30" and "a3" are runs of the letter a
TokLen(tok) ==
    CASE tok = "a87" -> 87
      [] tok = "a30" -> 30
      [] tok = "a3" -> 3
      [] tok = ".md" -> 3
      [] tok = "index" -> 5
      [] tok = "unnamed" -> 7
      [] tok = "watch" -> 5
      [] tok \in {"p1", "p2"} -> 2
      [] tok = "utm_source" -> 10
      [] tok \in {"%20", "%2F"} -> 3
      [] OTHER -> 1

RECURSIVE StrLen(_)
StrLen(s) == IF s = <<>> THEN 0 ELSE TokLen(Head(s)) + StrLen(Tail(s))

\* len(content)
ContentLen(content) == Len(content)

\* characters sanitize_filename keeps: [a-zA-Z0-9\-_.]
IsSafeTok(tok) == tok \notin {"/", "?", "#", " ", "www.", "http://", "https://"}

RECURSIVE CollapseUnderscores(_)
CollapseUnderscores(s) ==
    IF Len(s) < 2 THEN s
    ELSE IF s[1] = "_" /\ s[2] = "_" THEN CollapseUnderscores(Tail(s))
    ELSE <<s[1]>> \o CollapseUnderscores(Tail(s))

RECURSIVE StripUnderscores(_)
StripUnderscores(s) ==
    IF s # <<>> /\ s[1] = "_" THEN StripUnderscores(Tail(s))
    ELSE IF s # <<>> /\ s[Len(s)] = "_" THEN StripUnderscores(SubSeq(s, 1, Len(s) - 1))
    ELSE s

\* the longest prefix of whole tokens of s that has at most n characters
RECURSIVE TakeChars(_, _)
TakeChars(s, n) ==
    IF s = <<>> \/ TokLen(Head(s)) > n THEN <<>>
    ELSE <<Head(s)>> \o TakeChars(Tail(s), n - TokLen(Head(s)))

\* tokens that begin with a dot; no other token of a path holds one
DotToks == {".md"}

\* index of the last token of s that begins with a dot, or 0
RECURSIVE LastDot(_)
LastDot(s) ==
    IF s = <<>> THEN 0
    ELSE IF s[Len(s)] \in DotToks THEN Len(s)
    ELSE LastDot(SubSeq(s, 1, Len(s) - 1))

\* the inputs are chosen so that every cut falls between two tokens
\* the three rewrites sanitize_filename makes before it looks at the length
SafeChars(filename) ==
    LET replaced == [i \in 1..Len(filename) |->
                        IF IsSafeTok(filename[i]) THEN filename[i] ELSE "_"]
    IN  StripUnderscores(CollapseUnderscores(replaced))

sanitize_filename(filename) ==
    LET stripped == SafeChars(filename)
        k == LastDot(stripped)
        ext == SubSeq(stripped, k, Len(stripped))
        cut == IF StrLen(stripped) > max_file_name_len
               THEN IF k > 0
                    THEN IF StrLen(ext) - 1 < 10
                         THEN TakeChars(SubSeq(stripped, 1, k - 1),
                                        max_file_name_len - (StrLen(ext) - 1) - 1)
                                 \o ext
                         ELSE TakeChars(stripped, max_file_name_len)
                    ELSE TakeChars(stripped, max_file_name_len)
               ELSE stripped
    IN  IF cut = <<>> THEN <<"unnamed">> ELSE cut

RECURSIVE LStripSlash(_)
LStripSlash(s) == IF s # <<>> /\ Head(s) = "/" THEN LStripSlash(Tail(s)) ELSE s

\* create_url_hash(url)[:8], an atom naming the hashed URL
UrlHash8(url) == <<"md5(">> \o url \o <<")">>

\* FolderPerDomainStrategy._build_file_path without the mkdir: domain_dir / filename
\* the file name _build_file_path makes of the URL's path, before sanitizing
PathName(url) ==
    LET url_path == UrlPath(url)
    IN  IF url_path = <<>> \/ url_path = <<"/">>
        THEN <<"index">>
        ELSE [i \in 1..Len(LStripSlash(url_path)) |->
                 IF LStripSlash(url_path)[i] = "/" THEN "_"
                 ELSE LStripSlash(url_path)[i]]

BuildFilePath(url) ==
    LET domain == IF extract_domain(url) = <<>> THEN <<"unknown">> ELSE extract_domain(url)
        clean == sanitize_filename(PathName(url))
        named == IF clean[Len(clean)] = ".md" THEN clean ELSE clean \o <<".md">>
        filename == IF StrLen(named) > max_file_name_len
                    THEN TakeChars(named, max_file_name_len - 33)
                            \o <<"_">> \o UrlHash8(url) \o <<".md">>
                    ELSE named
    IN  domain \o <<"/">> \o filename

\* the path of a domain's aggregate file: output_dir / f"{domain}.md"
DomainFile(domain) == domain \o <<".md">>

\* the domain save() files a URL under
SaveDomain(url) ==
    IF extract_domain(url) = <<>> THEN <<"unknown">> ELSE extract_domain(url)

Domains == { SaveDomain(u) : u \in SaveUrls \cup { YoutubeUrl(v) : v \in VideoIds } }

\* what _flush_domain writes to the file for a list of buffered items
RECURSIVE FlushTextAsLastFirst(_, _)
FlushTextAsLastFirst(items, i) ==
    IF i > Len(items) THEN <<>>
    ELSE (IF i > 1 THEN <<"\n\n---\n\n">> ELSE <<>>)
            \o <<"# ">> \o items[Len(items) + 1 - i].url \o <<"\n\n">>
            \o items[Len(items) + 1 - i].content
            \o FlushTextAsLastFirst(items, i + 1)

RECURSIVE FlushText(_, _)
FlushText(items, i) ==
    IF i > Len(items) THEN <<>>
    ELSE (IF i > 1 THEN <<"\n\n---\n\n">> ELSE <<>>)
            \o <<"# ">> \o items[i].url \o <<"\n\n">> \o items[i].content
            \o FlushText(items, i + 1)

RECURSIVE SumContentLen(_)
SumContentLen(items) ==
    IF items = <<>> THEN 0
    ELSE ContentLen(Head(items).content) + SumContentLen(Tail(items))

SavedDomainFileInfoAsOnePage(domain, items) ==
    [ domain |-> domain,
      path   |-> DomainFile(domain),
      pages  |-> 1,
      size   |-> SumContentLen(items),
      urls   |-> [i \in 1..Len(items) |-> items[i].url] ]

SavedDomainFileInfo(domain, items) ==
    [ domain |-> domain,
      path   |-> DomainFile(domain),
      pages  |-> Len(items),
      size   |-> SumContentLen(items),
      urls   |-> [i \in 1..Len(items) |-> items[i].url] ]

SavedFileInfo(url, path, content) ==
    [ url |-> url, path |-> path, size |-> ContentLen(content) ]

VARIABLES
    strategy,       \* the strategy object's configuration (kind, buffer_size, flush_size_mb in bytes)
    buffers,        \* FilePerDomainStrategy.buffers: domain -> list of items
    buffer_sizes,   \* FilePerDomainStrategy.buffer_sizes: domain -> buffered characters
    buffer_keys,    \* the keys of buffers in insertion order
    saved_files,    \* _saved_files of either strategy
    disk,           \* path -> file text, or None when the file does not exist
    last_call,      \* the last call made on the strategy and how it ended
    save_log,       \* every save(url, content) call made with non-empty content, in call order
    n_finalize,     \* number of finalize() calls made so far
    io_failures,    \* number of I/O errors raised so far
    n_calls         \* number of save() calls made so far

pvars == << strategy, buffers, buffer_sizes, buffer_keys, saved_files, disk,
            last_call, save_log, n_finalize, io_failures, n_calls >>

\* the state of the orchestrator (src/docs_crawler.py)
VARIABLES
    config,         \* threads, dry_run, the scrap items and the flat URL list of the run
    VISITED_URLS,   \* the global dict of visited URLs, as the set of its keys
    semaphore,      \* the free slots of the shared asyncio.Semaphore
    main_pc,        \* where main() stands
    crawls,         \* crawl_parallel calls: id -> urls, scrap_item, pc, child_tasks
    tasks,          \* process_url tasks: id -> pc
    fetched,        \* the process_url tasks that have invoked the Page/Transcript Fetcher
    files,          \* the URLs process_and_store_document has written a file for
    store_failures, \* number of I/O errors raised by process_and_store_document
    fetch_failures  \* number of fetches that came back without success

cvars == << config, VISITED_URLS, semaphore, main_pc, crawls, tasks, fetched, files,
            store_failures, fetch_failures >>

\* save(url, content) calls made by concurrent tasks, in the order they were made
VARIABLES
    spawned,        \* the calls, each with the number of calls not yet run when it was made
    normalizer,     \* the normalization function under study
    normalized      \* a URL, followed by the results of applying the function again and again

uvars == << normalizer, normalized >>

\* the packaged runner (src/src/docs_crawler): one deep crawl and one run of the CLI
VARIABLES
    deep_crawl,     \* DeepCrawlRunner.run of one item: the item, its filter chain, the last link decided
    run             \* run_crawler: where it stands and the calls it has made

dvars == << deep_crawl, run >>

xvars == << spawned, uvars, dvars >>

vars == << pvars, cvars, xvars >>

FilePaths ==
    { DomainFile(d) : d \in Domains } \cup { BuildFilePath(u) : u \in SaveUrls \cup PathUrls }

\* how a write to the file system can end: "ok"; "open_fails", the file is left as
\* it was; "write_fails", open() has truncated the file and a later write fails,
\* which leaves some strict prefix of the text in the file
IOOutcomes == {"ok", "open_fails", "write_fails"}

\* the text of a file whose writing failed half way
Truncated == <<"<truncated>">>

\* FilePerDomainStrategy._should_flush
ShouldFlushAsOffByOne(bufs, sizes, domain) ==
    \/ Len(bufs[domain]) > strategy.buffer_size
    \/ sizes[domain] >= strategy.flush_size_mb

_should_flush(bufs, sizes, domain) ==
    \/ Len(bufs[domain]) >= strategy.buffer_size
    \/ sizes[domain] >= strategy.flush_size_mb


\* FilePerDomainStrategy._flush_domain(domain) on the given state, the file system
\* answering io: the new buffers, buffer_sizes, _saved_files and files, and the
\* returned path
FlushAsKeepBuffer(bufs, sizes, saved, dsk, domain, io) ==
    IF bufs[domain] = <<>>
    THEN [buffers |-> bufs, buffer_sizes |-> sizes, saved_files |-> saved,
          disk |-> dsk, ret |-> <<>>]
    ELSE [buffers |-> bufs, buffer_sizes |-> sizes,
          saved_files |-> Append(saved, SavedDomainFileInfo(domain, bufs[domain])),
          disk |-> [dsk EXCEPT ![DomainFile(domain)] = FlushText(bufs[domain], 1)],
          ret |-> DomainFile(domain)]

FlushAsDropOnFailure(bufs, sizes, saved, dsk, domain, io) ==
    IF bufs[domain] = <<>>
    THEN [buffers |-> bufs, buffer_sizes |-> sizes, saved_files |-> saved,
          disk |-> dsk, ret |-> <<>>]
    ELSE [buffers |-> [bufs EXCEPT ![domain] = <<>>],
          buffer_sizes |-> [sizes EXCEPT ![domain] = 0],
          saved_files |-> IF io = "ok"
                          THEN Append(saved, SavedDomainFileInfo(domain, bufs[domain]))
                          ELSE saved,
          disk |-> IF io = "ok"
                   THEN [dsk EXCEPT ![DomainFile(domain)] = FlushText(bufs[domain], 1)]
                   ELSE dsk,
          ret |-> IF io = "ok" THEN DomainFile(domain) ELSE <<>>]

FlushAsKeepCounter(bufs, sizes, saved, dsk, domain, io) ==
    IF bufs[domain] = <<>>
    THEN [buffers |-> bufs, buffer_sizes |-> sizes, saved_files |-> saved,
          disk |-> dsk, ret |-> <<>>]
    ELSE IF io = "ok"
    THEN [buffers |-> [bufs EXCEPT ![domain] = <<>>],
          buffer_sizes |-> sizes,
          saved_files |-> Append(saved, SavedDomainFileInfo(domain, bufs[domain])),
          disk |-> [dsk EXCEPT ![DomainFile(domain)] = FlushText(bufs[domain], 1)],
          ret |-> DomainFile(domain)]
    ELSE [buffers |-> bufs, buffer_sizes |-> sizes, saved_files |-> saved,
          disk |-> IF io = "open_fails" THEN dsk
                   ELSE [dsk EXCEPT ![DomainFile(domain)] = Truncated],
          ret |-> <<>>]

_flush_domain(bufs, sizes, saved, dsk, domain, io) ==
    IF bufs[domain] = <<>>
    THEN [buffers |-> bufs, buffer_sizes |-> sizes, saved_files |-> saved,
          disk |-> dsk, ret |-> <<>>]
    ELSE IF io = "ok"
    THEN [buffers |-> [bufs EXCEPT ![domain] = <<>>],
          buffer_sizes |-> [sizes EXCEPT ![domain] = 0],
          saved_files |-> Append(saved, SavedDomainFileInfo(domain, bufs[domain])),
          disk |-> [dsk EXCEPT ![DomainFile(domain)] = FlushText(bufs[domain], 1)],
          ret |-> DomainFile(domain)]
    ELSE IF io = "open_fails"
    THEN [buffers |-> bufs, buffer_sizes |-> sizes, saved_files |-> saved,
          disk |-> dsk, ret |-> <<>>]
    ELSE [buffers |-> bufs, buffer_sizes |-> sizes, saved_files |-> saved,
          disk |-> [dsk EXCEPT ![DomainFile(domain)] = Truncated],
          ret |-> <<>>]

\* the loop of FilePerDomainStrategy.finalize over the keys of buffers, the file
\* system answering io[domain] to the flush of each domain
RECURSIVE FinalizeLoopAsFlushEveryKey(_, _, _)
FinalizeLoopAsFlushEveryKey(keys, st, io) ==
    IF keys = <<>> THEN st
    ELSE LET domain == Head(keys)
             items == st.buffers[domain]
             after == IF io[domain] = "ok"
                      THEN [buffers |-> [st.buffers EXCEPT ![domain] = <<>>],
                            buffer_sizes |-> [st.buffer_sizes EXCEPT ![domain] = 0],
                            saved_files |-> Append(st.saved_files,
                                                   SavedDomainFileInfo(domain, items)),
                            disk |-> [st.disk EXCEPT ![DomainFile(domain)] =
                                         FlushText(items, 1)],
                            ret |-> DomainFile(domain)]
                      ELSE st
         IN  FinalizeLoopAsFlushEveryKey(Tail(keys), after, io)

RECURSIVE FinalizeLoop(_, _, _)
FinalizeLoop(keys, st, io) ==
    IF keys = <<>> THEN st
    ELSE LET domain == Head(keys)
             after == IF st.buffers[domain] # <<>>
                      THEN _flush_domain(st.buffers, st.buffer_sizes, st.saved_files,
                                         st.disk, domain, io[domain])
                      ELSE st
         IN  FinalizeLoop(Tail(keys), after, io)

\* number of keys at which f answers with an I/O error
IOErrors(f) == Cardinality({d \in DOMAIN f : f[d] # "ok"})

IsFilePerDomain == strategy.kind = "file_per_domain"
IsFolderPerDomain == strategy.kind = "folder_per_domain"

\* create_persistence_strategy and the constructors
PersistInit ==
    /\ strategy \in
          {[kind |-> "folder_per_domain", buffer_size |-> 0, flush_size_mb |-> 0]}
            \cup {[kind |-> "file_per_domain", buffer_size |-> b,
                   flush_size_mb |-> m * MBScale] : b \in BufferSizes, m \in FlushSizesMB}
    /\ buffers = [d \in Domains |-> <<>>]
    /\ buffer_sizes = [d \in Domains |-> 0]
    /\ buffer_keys = <<>>
    /\ saved_files = <<>>
    /\ disk = [p \in FilePaths |-> None]
    /\ last_call = [op |-> "none", ret |-> None, raised |-> FALSE, io_errors |-> 0]
    /\ save_log = <<>>
    /\ n_finalize = 0
    /\ io_failures = 0
    /\ n_calls = 0

InKeys(keys, d) == \E i \in 1..Len(keys) : keys[i] = d

\* self.buffers[domain].append(item)
AppendItemAsPrepend(buffer, item) == <<item>> \o buffer

AppendItem(buffer, item) == Append(buffer, item)

\* FilePerDomainStrategy.save(url, content)
FileSave(url, content, io) ==
    /\ IsFilePerDomain
    /\ n_calls < MaxSaves
    /\ n_calls' = n_calls + 1
    /\ save_log' = IF content = <<>> THEN save_log
                   ELSE Append(save_log, [url |-> url, content |-> content])
    /\ IF IsBlank(content)
       THEN /\ io = "ok"
            /\ last_call' = [op |-> "save", ret |-> <<>>, raised |-> FALSE, io_errors |-> 0]
            /\ UNCHANGED << buffers, buffer_sizes, buffer_keys, saved_files, disk,
                            io_failures >>
       ELSE LET domain == SaveDomain(url)
                item == [url |-> url, content |-> content]
                bufs == [buffers EXCEPT ![domain] = AppendItem(@, item)]
                sizes == [buffer_sizes EXCEPT ![domain] = @ + ContentLen(content)]
                flushed == IF _should_flush(bufs, sizes, domain)
                           THEN _flush_domain(bufs, sizes, saved_files, disk, domain, io)
                           ELSE [buffers |-> bufs, buffer_sizes |-> sizes,
                                 saved_files |-> saved_files, disk |-> disk,
                                 ret |-> <<>>]
            IN  /\ io \in IOOutcomes
                /\ io # "ok" => /\ _should_flush(bufs, sizes, domain)
                                /\ io_failures < MaxIOFailures
                /\ io_failures' = io_failures + (IF io = "ok" THEN 0 ELSE 1)
                /\ buffers' = flushed.buffers
                /\ buffer_sizes' = flushed.buffer_sizes
                /\ saved_files' = flushed.saved_files
                /\ disk' = flushed.disk
                /\ buffer_keys' = IF InKeys(buffer_keys, domain) THEN buffer_keys
                                  ELSE Append(buffer_keys, domain)
                /\ last_call' = [op |-> "save", ret |-> DomainFile(domain),
                                 raised |-> FALSE,
                                 io_errors |-> IF io = "ok" THEN 0 ELSE 1]

\* FilePerDomainStrategy.finalize()
FileFinalize(io) ==
    /\ IsFilePerDomain
    /\ n_finalize < MaxFinalizes
    /\ n_finalize' = n_finalize + 1
    /\ \A d \in Domains : buffers[d] = <<>> => io[d] = "ok"
    /\ io_failures + IOErrors(io) <= MaxIOFailures
    /\ LET st == FinalizeLoop(buffer_keys,
                              [buffers |-> buffers, buffer_sizes |-> buffer_sizes,
                               saved_files |-> saved_files, disk |-> disk, ret |-> <<>>],
                              io)
       IN  /\ buffers' = st.buffers
           /\ buffer_sizes' = st.buffer_sizes
           /\ saved_files' = st.saved_files
           /\ disk' = st.disk
    /\ io_failures' = io_failures + IOErrors(io)
    /\ last_call' = [op |-> "finalize", ret |-> None, raised |-> FALSE,
                     io_errors |-> IOErrors(io)]
    /\ UNCHANGED << strategy, buffer_keys, save_log, n_calls >>

\* self._saved_files.append(SavedFileInfo(...)), reached only when the write succeeded
RecordWriteAsAlways(saved, url, file_path, content, io) ==
    Append(saved, SavedFileInfo(url, file_path, content))

RecordWrite(saved, url, file_path, content, io) ==
    IF io = "ok" THEN Append(saved, SavedFileInfo(url, file_path, content)) ELSE saved

\* FolderPerDomainStrategy.save(url, content); io "mkdir_fails" is an error of
\* one of the two mkdir calls, which are made outside the try block
FolderSave(url, content, io) ==
    /\ IsFolderPerDomain
    /\ n_calls < MaxSaves
    /\ n_calls' = n_calls + 1
    /\ save_log' = IF content = <<>> THEN save_log
                   ELSE Append(save_log, [url |-> url, content |-> content])
    /\ UNCHANGED << buffers, buffer_sizes, buffer_keys >>
    /\ IF IsBlank(content)
       THEN /\ io = "ok"
            /\ last_call' = [op |-> "save", ret |-> <<>>, raised |-> FALSE, io_errors |-> 0]
            /\ UNCHANGED << saved_files, disk, io_failures >>
       ELSE LET file_path == BuildFilePath(url)
            IN  /\ io \in IOOutcomes \cup {"mkdir_fails"}
                /\ io # "ok" => io_failures < MaxIOFailures
                /\ io_failures' = io_failures + (IF io = "ok" THEN 0 ELSE 1)
                /\ disk' = IF io = "ok" THEN [disk EXCEPT ![file_path] = content]
                           ELSE IF io = "write_fails"
                           THEN [disk EXCEPT ![file_path] = Truncated]
                           ELSE disk
                /\ saved_files' = RecordWrite(saved_files, url, file_path, content, io)
                /\ last_call' = [op |-> "save",
                                 ret |-> IF io = "ok" THEN file_path
                                         ELSE IF io = "mkdir_fails" THEN None
                                         ELSE <<>>,
                                 raised |-> io = "mkdir_fails",
                                 io_errors |-> IF io = "ok" THEN 0 ELSE 1]

\* FolderPerDomainStrategy.finalize()
FolderFinalize ==
    /\ IsFolderPerDomain
    /\ n_finalize < MaxFinalizes
    /\ n_finalize' = n_finalize + 1
    /\ last_call' = [op |-> "finalize", ret |-> None, raised |-> FALSE, io_errors |-> 0]
    /\ UNCHANGED << strategy, buffers, buffer_sizes, buffer_keys, saved_files, disk,
                    save_log, io_failures, n_calls >>

\* the callers (cli.py, the runners, the tests) finish every save before they
\* call finalize
Save ==
    \E url \in SaveUrls, content \in SaveContents :
        \E io \in IOOutcomes \cup {"mkdir_fails"} :
            /\ n_finalize = 0
            /\ \/ FileSave(url, content, io)
               \/ FolderSave(url, content, io)
            /\ UNCHANGED << strategy, n_finalize >>
            /\ UNCHANGED << cvars, xvars >>

Finalize ==
    /\ \/ \E io \in [Domains -> IOOutcomes] : FileFinalize(io)
       \/ FolderFinalize
    /\ UNCHANGED << cvars, xvars >>

PersistNext == Save \/ Finalize



(***************************************************************************)
(* Crawl orchestrator: src/docs_crawler.py                                 *)
(***************************************************************************)

\* bounds of the orchestrator model
MaxThreads == 2
MaxDepth == 2
MaxStoreFailures == 1
MaxFetchFailures == 1

\* cleanup_url of src/docs_crawler.py: drop the fragment, then one trailing "/"
cleanup_url(url) ==
    LET cut == SubSeq(url, 1, FirstIn(url, {"#"}, 1) - 1)
    IN  IF cut # <<>> /\ cut[Len(cut)] = "/" THEN SubSeq(cut, 1, Len(cut) - 1) ELSE cut

\* "youtube.com" in url or "youtu.be" in url
IsYoutube(url) == \E i \in 1..Len(url) : url[i] \in {"youtube.com", "youtu.be"}

\* re.search(paths_to_skip_regex, url) for a pattern without metacharacters
RegexMatches(regex, url) == IsInfix(regex, url)

\* the pages of the web the Page Fetcher is asked for
PageR == <<"http://", "h">>
PageA == <<"http://", "h", "/", "a">>
PageX == <<"http://", "h", "/", "x">>
PageY == <<"http://", "h", "/", "y">>
PageZ == <<"http://", "h", "/", "z">>
PageO == <<"http://", "o", "/", "p">>
VideoV == <<"http://", "youtube.com", "/", "v">>

Pages == {PageR, PageA, PageX, PageY, PageZ, PageO, VideoV}

\* result.links of a page: the hrefs as they stand in the page
Hrefs(url) ==
    IF url = PageR THEN {PageA \o <<"/">>, PageO}
    ELSE IF url = PageA THEN {PageX, PageY, PageR \o <<"#", "top">>}
    ELSE IF url = PageO THEN {PageX \o <<"#", "f">>}
    ELSE IF url = PageX THEN {PageZ}
    ELSE IF url = PageY THEN {PageZ}
    ELSE {}

\* the Page Fetcher files a link as internal when it stays on the page's host
InternalLinks(url) == {l \in Hrefs(url) : Netloc(l) = Netloc(url)}
ExternalLinks(url) == {l \in Hrefs(url) : Netloc(l) # Netloc(url)}

\* result.markdown of a page; PageY is a page without text that has a link
Markdown(url) == IF url = PageY THEN <<>> ELSE <<"Hello">>

\* a ScrapItem, and the None that stands for no item
NoItem == [some |-> FALSE, depth |-> 0, allow_external_links |-> FALSE,
           paths_to_skip_regex |-> <<>>]

ScrapItem(depth, allow_external_links, paths_to_skip_regex) ==
    [some |-> TRUE, depth |-> depth, allow_external_links |-> allow_external_links,
     paths_to_skip_regex |-> paths_to_skip_regex]

\* ids: a top-level crawl_parallel call is <<k>>, k naming the entry of main_tasks;
\* the process_url task of crawl c for url is c \o <<url>>; the child crawl that
\* task creates has the task's id
Front(id) == SubSeq(id, 1, Len(id) - 1)
Last(id) == id[Len(id)]

TaskUrl(t) == cleanup_url(Last(t))
TasksOf(c) == {t \in DOMAIN tasks : Front(t) = c}
TopCrawls == {c \in DOMAIN crawls : Len(c) = 1}
\* the top-level call a task or a crawl descends from
RootOf(id) == <<id[1]>>
\* number of links followed from the root URL to the task's URL
Hops(t) == Len(t) - 2

FlatKey == <<"flat">>
ScrapKey(i) == IF i = 1 THEN <<"scrap1">> ELSE <<"scrap2">>

Running == main_pc \in {"gather", "returned", "raised"}

\* the configurations of a run: one root at every depth, with and without
\* external links, under every thread count; a dry run with a skip pattern; a
\* flat URL list beside a root; two roots; the empty configuration; a root with a
\* skip pattern beside a flat list that holds a page the pattern leaves out; and a
\* root whose page has links but no text
Root(depth, allow_external_links, paths_to_skip_regex) ==
    [url |-> PageR \o <<"/">>,
     item |-> ScrapItem(depth, allow_external_links, paths_to_skip_regex)]

Configs ==
    {[threads |-> n, dry_run |-> FALSE, scrap |-> <<Root(d, e, <<>>)>>, urls |-> {}] :
          n \in 1..MaxThreads, d \in 0..MaxDepth, e \in BOOLEAN}
      \cup {[threads |-> MaxThreads, dry_run |-> TRUE,
              scrap |-> <<Root(MaxDepth, TRUE, <<"y">>)>>, urls |-> {}],
             [threads |-> 1, dry_run |-> FALSE, scrap |-> <<Root(1, FALSE, <<>>)>>,
              urls |-> {VideoV, PageA \o <<"#", "s">>, PageA \o <<"/">>}],
             [threads |-> 1, dry_run |-> TRUE, scrap |-> <<>>, urls |-> {VideoV}],
             [threads |-> MaxThreads, dry_run |-> FALSE,
              scrap |-> <<Root(1, FALSE, <<>>),
                          [url |-> PageO, item |-> ScrapItem(1, TRUE, <<>>)]>>,
              urls |-> {}],
             [threads |-> 1, dry_run |-> FALSE, scrap |-> <<>>, urls |-> {}],
             [threads |-> 1, dry_run |-> FALSE, scrap |-> <<Root(MaxDepth, FALSE, <<"a">>)>>,
              urls |-> {PageA}],
             [threads |-> 1, dry_run |-> FALSE,
              scrap |-> <<[url |-> PageY, item |-> ScrapItem(1, FALSE, <<>>)]>>,
              urls |-> {}]}

CrawlInit ==
    /\ config \in Configs
    /\ VISITED_URLS = {}
    /\ semaphore = config.threads
    /\ main_pc = "start"
    /\ crawls = << >>
    /\ tasks = << >>
    /\ fetched = {}
    /\ files = {}
    /\ store_failures = 0
    /\ fetch_failures = 0

NewCrawl(urls, item) ==
    [urls |-> urls, item |-> item, pc |-> "new", child_tasks |-> {}, awaited |-> {}]

\* main(): create one crawl_parallel task per scrap item and one for the flat list
MainStart ==
    /\ main_pc = "start"
    /\ main_pc' = "gather"
    /\ crawls' =
          [c \in {ScrapKey(i) : i \in 1..Len(config.scrap)}
                    \cup (IF config.urls # {} THEN {FlatKey} ELSE {}) |->
              IF c = FlatKey THEN NewCrawl(config.urls, NoItem)
              ELSE LET i == CHOOSE j \in 1..Len(config.scrap) : ScrapKey(j) = c
                   IN  NewCrawl({config.scrap[i].url}, config.scrap[i].item)]
    /\ UNCHANGED << config, VISITED_URLS, semaphore, tasks, fetched, files,
                    store_failures, fetch_failures >>
    /\ UNCHANGED << pvars, xvars >>

\* asyncio.Semaphore.release()
ReleaseAsTwoSlots(sem) == sem + 2

ReleaseAsKeepSlot(sem) == sem

Release(sem) == sem + 1

\* process_and_store_document(url, markdown): nothing for empty markdown, else the
\* file of the URL is written; io "raises" is an OSError of makedirs or open
StoreRaises(markdown, io) == ~config.dry_run /\ markdown # <<>> /\ io = "raises"

StoredFiles(url, markdown, io) ==
    IF ~config.dry_run /\ markdown # <<>> /\ io = "ok" THEN files \cup {url} ELSE files

\* the item handed to the child crawl: depth - 1, or None below 1
ChildItemAsSameDepth(scrap_item) == scrap_item

ChildItem(scrap_item) ==
    IF scrap_item.depth - 1 < 1 THEN NoItem
    ELSE [scrap_item EXCEPT !.depth = scrap_item.depth - 1]

\* the links process_url hands to the child crawl
ChildLinksAsAllLinks(url, scrap_item) ==
    {cleanup_url(l) : l \in {h \in Hrefs(url) : cleanup_url(h) \notin VISITED_URLS}}

ChildLinks(url, scrap_item) ==
    LET links_hrefs == InternalLinks(url) \cup
                          (IF scrap_item.allow_external_links THEN ExternalLinks(url)
                           ELSE {})
    IN  {cleanup_url(l) : l \in {h \in links_hrefs : cleanup_url(h) \notin VISITED_URLS}}

\* the guard of crawl_parallel: no URLs, or an item whose depth is below 1
CrawlReturnsAtOnce(c) ==
    \/ crawls[c].urls = {}
    \/ crawls[c].item.some /\ crawls[c].item.depth < 1

\* crawl_parallel up to its first await: create a process_url task per URL
CrawlStart(c) ==
    /\ Running
    /\ crawls[c].pc = "new"
    /\ IF CrawlReturnsAtOnce(c)
       THEN /\ crawls' = [crawls EXCEPT ![c].pc = "done"]
            /\ UNCHANGED tasks
       ELSE /\ crawls' = [crawls EXCEPT ![c].pc = "gather_urls"]
            /\ tasks' = tasks @@ [t \in {c \o <<u>> : u \in crawls[c].urls} |->
                                     [pc |-> "new"]]
    /\ UNCHANGED << config, VISITED_URLS, semaphore, main_pc, fetched, files,
                    store_failures, fetch_failures >>
    /\ UNCHANGED << pvars, xvars >>

\* the test process_url makes before it asks for the semaphore
AlreadyVisited(url) == url \in VISITED_URLS

Skipped(t) ==
    LET scrap_item == crawls[Front(t)].item
    IN  /\ scrap_item.some
        /\ Len(scrap_item.paths_to_skip_regex) > 0
        /\ RegexMatches(scrap_item.paths_to_skip_regex, TaskUrl(t))

\* process_url from the moment it holds the semaphore to its next await or its
\* end: mark the URL visited; a video is fetched and stored at once, a page is
\* asked from the crawler
Enter(t, sem, ok, io) ==
    LET url == TaskUrl(t)
    IN  /\ VISITED_URLS' = VISITED_URLS \cup {url}
        /\ IF IsYoutube(url)
           THEN LET transcript == IF ok THEN <<"transcript">> ELSE <<>>
                IN  /\ semaphore' = Release(sem)
                    /\ fetched' = IF config.dry_run THEN fetched ELSE fetched \cup {t}
                    /\ files' = StoredFiles(url, transcript, io)
                    /\ tasks' = [tasks EXCEPT ![t].pc =
                                    IF StoreRaises(transcript, io) THEN "failed"
                                    ELSE "done"]
                    /\ io # "ok" => StoreRaises(transcript, io)
                    /\ ~ok => ~config.dry_run
                    /\ store_failures' = store_failures +
                                            (IF StoreRaises(transcript, io) THEN 1 ELSE 0)
                    /\ fetch_failures' = fetch_failures + (IF ok THEN 0 ELSE 1)
           ELSE /\ ok /\ io = "ok"
                /\ semaphore' = sem
                /\ fetched' = fetched \cup {t}
                /\ tasks' = [tasks EXCEPT ![t].pc = "fetch"]
                /\ UNCHANGED << files, store_failures, fetch_failures >>

\* VISITED_URLS when process_url returns early, for a URL already visited or one
\* the skip pattern matches: the URL is not marked
VisitedOnEarlyReturnAsMarked(url) == VISITED_URLS \cup {url}

VisitedOnEarlyReturn(url) == VISITED_URLS

\* process_url from its start to its first await or its end
ProcessUrl(t, ok, io) ==
    /\ Running
    /\ tasks[t].pc = "new"
    /\ ok \/ fetch_failures < MaxFetchFailures
    /\ io = "ok" \/ store_failures < MaxStoreFailures
    /\ IF AlreadyVisited(TaskUrl(t)) \/ Skipped(t)
       THEN /\ ok /\ io = "ok"
            /\ tasks' = [tasks EXCEPT ![t].pc = "done"]
            /\ VISITED_URLS' = VisitedOnEarlyReturn(TaskUrl(t))
            /\ UNCHANGED << semaphore, fetched, files, store_failures, fetch_failures >>
       ELSE IF semaphore > 0
       THEN Enter(t, semaphore - 1, ok, io)
       ELSE /\ ok /\ io = "ok"
            /\ tasks' = [tasks EXCEPT ![t].pc = "acquire"]
            /\ UNCHANGED << VISITED_URLS, semaphore, fetched, files, store_failures,
                            fetch_failures >>
    /\ UNCHANGED << config, main_pc, crawls >>
    /\ UNCHANGED << pvars, xvars >>

\* a process_url that waited for the semaphore gets a slot
Acquire(t, ok, io) ==
    /\ Running
    /\ tasks[t].pc = "acquire"
    /\ semaphore > 0
    /\ ok \/ fetch_failures < MaxFetchFailures
    /\ io = "ok" \/ store_failures < MaxStoreFailures
    /\ Enter(t, semaphore - 1, ok, io)
    /\ UNCHANGED << config, main_pc, crawls >>
    /\ UNCHANGED << pvars, xvars >>

\* process_url raises after crawler.arun has returned: only when the fetch
\* succeeded and storing the page raises
FetchRaisesAsOnFailure(success, markdown, io) ==
    ~success \/ StoreRaises(markdown, io)

FetchRaises(success, markdown, io) ==
    success /\ StoreRaises(markdown, io)

\* `if scrap_item is not None`: the links of a fetched page are collected, whatever
\* its markdown is
ExpandsAsAlways(scrap_item, markdown) == TRUE

ExpandsAsOnlyWithContent(scrap_item, markdown) == scrap_item.some /\ markdown # <<>>

Expands(scrap_item, markdown) == scrap_item.some

\* crawler.arun returns to process_url, which stores the page and hands its links
\* to a child crawl_parallel task
FetchReturn(t, success, io) ==
    LET url == TaskUrl(t)
        c == Front(t)
        scrap_item == crawls[c].item
        raises == FetchRaises(success, Markdown(url), io)
        links_hrefs == ChildLinks(url, scrap_item)
        spawns == success /\ ~raises /\ Expands(scrap_item, Markdown(url))
                          /\ links_hrefs # {}
    IN  /\ Running
        /\ tasks[t].pc = "fetch"
        /\ success \/ fetch_failures < MaxFetchFailures
        /\ io = "ok" \/ (raises /\ store_failures < MaxStoreFailures)
        /\ fetch_failures' = fetch_failures + (IF success THEN 0 ELSE 1)
        /\ store_failures' = store_failures + (IF raises THEN 1 ELSE 0)
        /\ files' = IF success THEN StoredFiles(url, Markdown(url), io) ELSE files
        /\ tasks' = [tasks EXCEPT ![t].pc = IF raises THEN "failed" ELSE "done"]
        /\ crawls' =
              IF spawns
              THEN [crawls EXCEPT ![c].child_tasks = @ \cup {t}]
                      @@ (t :> NewCrawl(links_hrefs, ChildItem(scrap_item)))
              ELSE crawls
        /\ semaphore' = Release(semaphore)
        /\ UNCHANGED << config, VISITED_URLS, main_pc, fetched >>
        /\ UNCHANGED << pvars, xvars >>

\* gather(*url_tasks) of crawl c has its result: a task raised, or all are done
UrlTasksGathered(c) ==
    /\ crawls[c].pc = "gather_urls"
    /\ \/ \E t \in TasksOf(c) : tasks[t].pc = "failed"
       \/ \A t \in TasksOf(c) : tasks[t].pc = "done"

\* child_task.add_done_callback(child_tasks.discard): the callback of a finished
\* child crawl. The event loop resumes a crawl whose gather has its result before
\* it runs callbacks that are scheduled later, so the discard does not overtake
\* the parent's reading of child_tasks
Discard(c) ==
    /\ Running
    /\ Len(c) > 1
    /\ crawls[c].pc \in {"done", "failed"}
    /\ c \in crawls[Front(c)].child_tasks
    /\ ~UrlTasksGathered(Front(c))
    /\ crawls' = [crawls EXCEPT ![Front(c)].child_tasks = @ \ {c}]
    /\ UNCHANGED << config, VISITED_URLS, semaphore, main_pc, tasks, fetched, files,
                    store_failures, fetch_failures >>
    /\ UNCHANGED << pvars, xvars >>

\* what crawl_parallel waits for after its URL tasks: the child tasks still in
\* child_tasks
AwaitedChildren(c) == crawls[c].child_tasks

\* await asyncio.gather(*url_tasks) ends: with the first exception of a task, or
\* when every task is done
GatherUrls(c) ==
    /\ Running
    /\ UrlTasksGathered(c)
    /\ IF \E t \in TasksOf(c) : tasks[t].pc = "failed"
       THEN crawls' = [crawls EXCEPT ![c].pc = "failed"]
       ELSE /\ \A t \in TasksOf(c) : tasks[t].pc = "done"
            /\ crawls' = IF AwaitedChildren(c) # {}
                         THEN [crawls EXCEPT ![c].pc = "gather_children",
                                             ![c].awaited = AwaitedChildren(c)]
                         ELSE [crawls EXCEPT ![c].pc = "done"]
    /\ UNCHANGED << config, VISITED_URLS, semaphore, main_pc, tasks, fetched, files,
                    store_failures, fetch_failures >>
    /\ UNCHANGED << pvars, xvars >>

\* await asyncio.gather(*child_tasks) ends
GatherChildren(c) ==
    /\ Running
    /\ crawls[c].pc = "gather_children"
    /\ IF \E k \in crawls[c].awaited : crawls[k].pc = "failed"
       THEN crawls' = [crawls EXCEPT ![c].pc = "failed"]
       ELSE /\ \A k \in crawls[c].awaited : crawls[k].pc = "done"
            /\ crawls' = [crawls EXCEPT ![c].pc = "done"]
    /\ UNCHANGED << config, VISITED_URLS, semaphore, main_pc, tasks, fetched, files,
                    store_failures, fetch_failures >>
    /\ UNCHANGED << pvars, xvars >>

\* await asyncio.gather(*main_tasks) ends in main()
MainGather ==
    /\ main_pc = "gather"
    /\ IF \E c \in TopCrawls : crawls[c].pc = "failed"
       THEN main_pc' = "raised"
       ELSE /\ \A c \in TopCrawls : crawls[c].pc = "done"
            /\ main_pc' = "returned"
    /\ UNCHANGED << config, VISITED_URLS, semaphore, crawls, tasks, fetched, files,
                    store_failures, fetch_failures >>
    /\ UNCHANGED << pvars, xvars >>

\* crawler.close() has returned and asyncio.run cancels what is left
MainExit ==
    /\ main_pc \in {"returned", "raised"}
    /\ main_pc' = "exit"
    /\ UNCHANGED << config, VISITED_URLS, semaphore, crawls, tasks, fetched, files,
                    store_failures, fetch_failures >>
    /\ UNCHANGED << pvars, xvars >>

CrawlNext ==
    \/ MainStart
    \/ \E c \in DOMAIN crawls : CrawlStart(c)
    \/ \E t \in DOMAIN tasks, ok \in BOOLEAN, io \in {"ok", "raises"} : ProcessUrl(t, ok, io)
    \/ \E t \in DOMAIN tasks, ok \in BOOLEAN, io \in {"ok", "raises"} : Acquire(t, ok, io)
    \/ \E t \in DOMAIN tasks, success \in BOOLEAN, io \in {"ok", "raises"} :
          FetchReturn(t, success, io)
    \/ \E c \in DOMAIN crawls : Discard(c)
    \/ \E c \in DOMAIN crawls : GatherUrls(c)
    \/ \E c \in DOMAIN crawls : GatherChildren(c)
    \/ MainGather
    \/ MainExit

\* the persistence objects while the orchestrator runs, and the reverse
PersistIdle ==
    /\ strategy = [kind |-> "none", buffer_size |-> 0, flush_size_mb |-> 0]
    /\ buffers = [d \in Domains |-> <<>>]
    /\ buffer_sizes = [d \in Domains |-> 0]
    /\ buffer_keys = <<>>
    /\ saved_files = <<>>
    /\ disk = [p \in FilePaths |-> None]
    /\ last_call = [op |-> "none", ret |-> None, raised |-> FALSE, io_errors |-> 0]
    /\ save_log = <<>>
    /\ n_finalize = 0
    /\ io_failures = 0
    /\ n_calls = 0

CrawlIdle ==
    /\ config = [threads |-> 1, dry_run |-> TRUE, scrap |-> <<>>, urls |-> {}]
    /\ VISITED_URLS = {}
    /\ semaphore = 1
    /\ main_pc = "idle"
    /\ crawls = << >>
    /\ tasks = << >>
    /\ fetched = {}
    /\ files = {}
    /\ store_failures = 0
    /\ fetch_failures = 0

\* no task has called save
NoSpawn == spawned = <<>>

NormalizeIdle == normalizer = "none" /\ normalized = <<>>

DeepCrawlIdle == deep_crawl = [pc |-> "idle"]

RunIdle == run = [pc |-> "idle"]

CrawlSpecInit == CrawlInit /\ PersistIdle /\ NoSpawn /\ NormalizeIdle /\ DeepCrawlIdle /\ RunIdle

CrawlSpec == CrawlSpecInit /\ [][CrawlNext]_vars

PersistSpecInit == PersistInit /\ CrawlIdle /\ NoSpawn /\ NormalizeIdle /\ DeepCrawlIdle /\ RunIdle

PersistSpec == PersistSpecInit /\ [][PersistNext]_vars

\* ---------------------------------------------------------------------------
\* Concurrent callers of save on one event loop
\* ---------------------------------------------------------------------------

\* the concurrent calls: URLs of one domain, with and without content
SpawnUrls == { u \in SaveUrls : SaveDomain(u) = <<"a.com">> }
SpawnContents == { <<>>, <<"x">> }

\* a task is created for save(url, content) while n_calls earlier calls have run
SpawnSave(url, content) ==
    /\ n_finalize = 0
    /\ Len(spawned) < MaxSaves
    /\ spawned' = Append(spawned, [url |-> url, content |-> content,
                                   ahead |-> Len(spawned) - n_calls])
    /\ UNCHANGED << pvars, cvars, uvars, dvars >>

\* the event loop runs the oldest task that has not run. save has one await,
\* of _flush_domain, which contains no await: the call runs from its first line
\* to its return without giving the loop to another task
RunSave(io) ==
    /\ n_finalize = 0
    /\ n_calls < Len(spawned)
    /\ LET call == spawned[n_calls + 1]
       IN  \/ FileSave(call.url, call.content, io)
           \/ FolderSave(call.url, call.content, io)
    /\ UNCHANGED << strategy, n_finalize, spawned, uvars, dvars >>
    /\ UNCHANGED cvars

\* the caller has awaited every save and calls finalize
FinalizeAfterSaves ==
    /\ n_calls = Len(spawned)
    /\ n_calls > 0
    /\ n_finalize = 0
    /\ Finalize

ConcurrentNext ==
    \/ \E url \in SpawnUrls, content \in SpawnContents : SpawnSave(url, content)
    \/ \E io \in IOOutcomes \cup {"mkdir_fails"} : RunSave(io)
    \/ FinalizeAfterSaves

ConcurrentSpecInit == PersistInit /\ CrawlIdle /\ NoSpawn /\ NormalizeIdle /\ DeepCrawlIdle /\ RunIdle

ConcurrentSpec == ConcurrentSpecInit /\ [][ConcurrentNext]_vars

\* saves of the per-page strategy whose writes all succeed, on URLs whose paths
\* are close to one another
PathSave(url, content) ==
    /\ n_finalize = 0
    /\ FolderSave(url, content, "ok")
    /\ UNCHANGED << strategy, n_finalize >>
    /\ UNCHANGED << cvars, xvars >>

PathFinalize ==
    /\ FolderFinalize
    /\ UNCHANGED << cvars, xvars >>

PathNext ==
    \/ \E url \in PathUrls, content \in PathContents : PathSave(url, content)
    \/ PathFinalize

PathSpecInit ==
    PersistInit /\ IsFolderPerDomain /\ CrawlIdle /\ NoSpawn /\ NormalizeIdle /\ DeepCrawlIdle /\ RunIdle

PathSpec == PathSpecInit /\ [][PathNext]_vars


(***************************************************************************)
(* URL normalization: src/src/docs_crawler/config.py, utils.py             *)
(***************************************************************************)

\* the number of times a function is applied to its own result
MaxApplications == 2

\* the exception urlparse and the tuple unpacking raise
ValueError == <<"ValueError">>

\* url.split('#', 1)[0]
BeforeFragment(url) == SubSeq(url, 1, FirstIn(url, {"#"}, 1) - 1)

\* re.sub(r'/$', '', url)
StripOneSlash(url) ==
    IF url # <<>> /\ url[Len(url)] = "/" THEN SubSeq(url, 1, Len(url) - 1) ELSE url

\* s.split(sep): the pieces of s between the occurrences of the token sep
RECURSIVE SplitOn(_, _)
SplitOn(s, sep) ==
    LET i == FirstIn(s, {sep}, 1)
    IN  IF i > Len(s) THEN << s >>
        ELSE << SubSeq(s, 1, i - 1) >> \o SplitOn(SubSeq(s, i + 1, Len(s)), sep)

\* urlsplit raises "Invalid IPv6 URL" when one bracket of the netloc has no partner
NetlocIsInvalid(url) ==
    LET netloc == Netloc(url)
    IN  (\E i \in 1..Len(netloc) : netloc[i] = "[") # (\E i \in 1..Len(netloc) : netloc[i] = "]")

\* urlparse(url).query of a URL that has no fragment
UrlQuery(url) ==
    LET rest == AfterNetloc(url)
    IN  SubSeq(rest, FirstIn(rest, {"?"}, 1) + 1, Len(rest))

\* urlunparse of the parsed URL with its query replaced
ReplaceQuery(url, query) ==
    (IF HasScheme(url) THEN << url[1] >> ELSE <<>>) \o Netloc(url) \o UrlPath(url)
        \o (IF query = <<>> THEN <<>> ELSE << "?" >> \o query)

\* unquote of parse_qs: '+' and %20 are a space, %2F is a slash
Unquote(s) ==
    [i \in 1..Len(s) |-> CASE s[i] \in {"+", "%20"} -> " "
                           [] s[i] = "%2F" -> "/"
                           [] OTHER -> s[i]]

\* quote_plus of urlencode
QuotePlus(s) ==
    [i \in 1..Len(s) |-> CASE s[i] = " " -> "+"
                           [] s[i] = "/" -> "%2F"
                           [] OTHER -> s[i]]

\* urllib.parse.parse_qs(query) as the list of its (name, value) pairs: a field
\* without a value is dropped
parse_qs(query) ==
    LET fields == IF query = <<>> THEN <<>> ELSE SplitOn(query, "&")
        pair(f) == [name  |-> Unquote(SubSeq(f, 1, FirstIn(f, {"="}, 1) - 1)),
                    value |-> Unquote(SubSeq(f, FirstIn(f, {"="}, 1) + 1, Len(f)))]
    IN  SelectSeq([k \in 1..Len(fields) |-> pair(fields[k])], LAMBDA p : p.value # <<>>)

utm_params ==
    { <<"utm_source">>, <<"utm_medium">>, <<"utm_campaign">>, <<"utm_term">>,
      <<"utm_content">> }

\* the keys of the dictionary parse_qs returns, in insertion order
RECURSIVE DictKeys(_, _)
DictKeys(pairs, seen) ==
    IF pairs = <<>> THEN <<>>
    ELSE IF Head(pairs).name \in seen THEN DictKeys(Tail(pairs), seen)
    ELSE << Head(pairs).name >> \o DictKeys(Tail(pairs), seen \cup {Head(pairs).name})

\* '&'.join of a list of fields
RECURSIVE JoinAmp(_)
JoinAmp(fields) ==
    IF fields = <<>> THEN <<>>
    ELSE IF Len(fields) = 1 THEN Head(fields)
    ELSE Head(fields) \o << "&" >> \o JoinAmp(Tail(fields))

\* urlencode(query_params, doseq=True) after the utm parameters were popped
RECURSIVE FieldsOfKeys(_, _)
FieldsOfKeys(keys, pairs) ==
    IF keys = <<>> THEN <<>>
    ELSE LET mine == SelectSeq(pairs, LAMBDA p : p.name = Head(keys))
         IN  [k \in 1..Len(mine) |-> QuotePlus(mine[k].name) \o << "=" >>
                                         \o QuotePlus(mine[k].value)]
                \o FieldsOfKeys(Tail(keys), pairs)

urlencode(pairs) ==
    JoinAmp(FieldsOfKeys(SelectSeq(DictKeys(pairs, {}), LAMBDA k : k \notin utm_params),
                         pairs))

\* normalize_url(url) of config.py, strip_utm left at its default as every caller does
config_normalize_url(url) ==
    LET trimmed == StripOneSlash(BeforeFragment(url))
    IN  IF NetlocIsInvalid(trimmed) THEN ValueError
        ELSE ReplaceQuery(trimmed, urlencode(parse_qs(UrlQuery(trimmed))))

\* the loop `for key, value in parsed.query.split('&')` of utils.py: every field is
\* unpacked as a pair, which needs a field of exactly two characters; the first
\* character is the key, and only a key that is '=' stores anything
UnpackRaises(query) ==
    query # <<>> /\ \E k \in 1..Len(SplitOn(query, "&")) : StrLen(SplitOn(query, "&")[k]) # 2

UnpackedQuery(query) ==
    IF query # <<>> /\ \E k \in 1..Len(SplitOn(query, "&")) : SplitOn(query, "&")[k][1] = "="
    THEN << "=" >>
    ELSE <<>>

\* cleanup_url(url) of utils.py, which normalize_url of utils.py calls
utils_cleanup_url(url) ==
    IF url = <<>> THEN url
    ELSE LET trimmed == StripOneSlash(BeforeFragment(url))
         IN  IF NetlocIsInvalid(trimmed) \/ UnpackRaises(UrlQuery(trimmed)) THEN ValueError
             ELSE ReplaceQuery(trimmed, UnpackedQuery(UrlQuery(trimmed)))

Normalizers == { "config.normalize_url", "utils.normalize_url", "docs_crawler.cleanup_url" }

\* the URLs the functions are applied to
UrlBases ==
    { <<"http://", "h">>, <<"http://", "h", "/", "a">>, <<"http://", "[", "::1", "/", "a">> }

UrlSlashes == { <<>>, <<"/">>, <<"/", "/">> }

UrlQueries ==
    { <<>>,
      <<"?">>,
      <<"?", "utm_source", "=", "x">>,
      <<"?", "x", "=", "1">>,
      <<"?", "x", "=", "1", "&", "utm_source", "=", "x">>,
      <<"?", "x">>,
      <<"?", "x", "=">>,
      <<"?", "x", "=", "1", "&", "y", "=", "2", "&", "x", "=", "3">>,
      <<"?", "q", "=", "a", "%20", "b">> }

UrlFragments == { <<>>, <<"#", "f">> }

UrlInputs ==
    { <<>> } \cup { b \o sl \o q \o f :
                      b \in UrlBases, sl \in UrlSlashes, q \in UrlQueries, f \in UrlFragments }

LastResult == normalized[Len(normalized)]

CanApply(fn) ==
    /\ normalizer = fn
    /\ Len(normalized) <= MaxApplications
    /\ LastResult # ValueError

ApplyConfigNormalize ==
    /\ CanApply("config.normalize_url")
    /\ normalized' = Append(normalized, config_normalize_url(LastResult))
    /\ UNCHANGED << normalizer, spawned, pvars, cvars, dvars >>

ApplyUtilsNormalize ==
    /\ CanApply("utils.normalize_url")
    /\ normalized' = Append(normalized, utils_cleanup_url(LastResult))
    /\ UNCHANGED << normalizer, spawned, pvars, cvars, dvars >>

ApplyCleanupUrl ==
    /\ CanApply("docs_crawler.cleanup_url")
    /\ normalized' = Append(normalized, cleanup_url(LastResult))
    /\ UNCHANGED << normalizer, spawned, pvars, cvars, dvars >>

UrlNext == ApplyConfigNormalize \/ ApplyUtilsNormalize \/ ApplyCleanupUrl

UrlSpecInit ==
    /\ normalizer \in Normalizers
    /\ \E u \in UrlInputs : normalized = << u >>
    /\ PersistIdle /\ CrawlIdle /\ NoSpawn /\ DeepCrawlIdle /\ RunIdle

UrlSpec == UrlSpecInit /\ [][UrlNext]_vars



\* ---------------------------------------------------------------------------
\* Properties of the orchestrator
\* ---------------------------------------------------------------------------

\* the tasks holding a slot of the semaphore while crawler.arun is awaited
InFlight == {t \in DOMAIN tasks : tasks[t].pc = "fetch"}

\* the tasks that have not reached their end
Unfinished == {t \in DOMAIN tasks : tasks[t].pc \in {"new", "acquire", "fetch"}}

\* the scrap item a top-level traversal was started with
RootItem(id) == crawls[RootOf(id)].item

\* C1: across a run the Page/Transcript Fetcher is invoked at most once for each
\* normalized URL: no two process_url tasks have fetched the same cleaned URL
C1_FetchedAtMostOnce ==
    \A t1 \in fetched, t2 \in fetched : TaskUrl(t1) = TaskUrl(t2) => t1 = t2

\* C2: when the gather of main() returns, every process_url task and every
\* crawl_parallel call of every root has completed: no fetch is in flight or
\* pending
C2_GatherReturnsAfterAllDescendants ==
    main_pc = "returned" =>
        /\ Unfinished = {}
        /\ \A c \in DOMAIN crawls : crawls[c].pc \in {"done", "failed"}

\* C3: the number of fetches in flight never exceeds the configured thread count,
\* over all roots, the flat URL list and all recursion depths; the free slots
\* and the slots in use add up to the thread count
C3_InFlightWithinThreads ==
    /\ Cardinality(InFlight) <= config.threads
    /\ semaphore >= 0
    /\ semaphore + Cardinality(InFlight) = config.threads

\* the cap is reached by fetches of different recursion depths while a further
\* task waits for a slot
C3_Witness ==
    /\ Cardinality(InFlight) = config.threads
    /\ \E t1 \in InFlight, t2 \in InFlight : Hops(t1) # Hops(t2)
    /\ \E t \in DOMAIN tasks : tasks[t].pc = "acquire"

\* C4: a traversal started from a root with depth budget d never fetches a page
\* more than d link hops away from the root
C4_FetchedWithinDepth ==
    \A t \in fetched :
        RootItem(t).some => Hops(t) <= RootItem(t).depth

\* a finished traversal of depth 2 has fetched PageX two hops from the root and
\* has left PageZ, which PageX links to, alone
C4_Witness ==
    /\ main_pc = "returned"
    /\ Unfinished = {}
    /\ \E t \in fetched :
          /\ RootItem(t).some /\ RootItem(t).depth = 2
          /\ Hops(t) = 2 /\ TaskUrl(t) = PageX
    /\ PageZ \in Hrefs(PageX)
    /\ PageZ \notin VISITED_URLS

\* C5: a traversal started from a root with depth 0 fetches the root URL (and
\* nothing else): once main's gather has returned, the root has been fetched
C5_DepthZeroFetchesRoot ==
    \A i \in 1..Len(config.scrap) :
        (main_pc = "returned" /\ config.scrap[i].item.depth = 0) =>
            /\ \E t \in fetched : TaskUrl(t) = cleanup_url(config.scrap[i].url)
            /\ \A t \in fetched : RootOf(t) = ScrapKey(i) => Hops(t) = 0

\* a run all of whose traversals exclude external links
NoExternalRun ==
    /\ main_pc # "start"
    /\ config.urls = {}
    /\ \A i \in 1..Len(config.scrap) : ~config.scrap[i].item.allow_external_links

\* the pages fetched so far
FetchedPages == {TaskUrl(t) : t \in fetched}

\* C6: in a traversal whose root item excludes external links, a link a fetched
\* page reports as external is never fetched and never enters the visited set;
\* for a root of depth 1 whose page has one internal and one external link, the
\* visited set at completion is the root and the internal link
C6_ExternalNeverVisited ==
    NoExternalRun =>
        /\ \A p \in FetchedPages : \A l \in ExternalLinks(p) :
              /\ cleanup_url(l) \notin VISITED_URLS
              /\ cleanup_url(l) \notin FetchedPages
        /\ \A i \in 1..Len(config.scrap) :
              (/\ Len(config.scrap) = 1
               /\ config.scrap[i].item.depth = 1
               /\ main_pc = "returned"
               /\ fetch_failures = 0) =>
                  VISITED_URLS = {cleanup_url(config.scrap[i].url)} \cup
                      {cleanup_url(l) : l \in InternalLinks(cleanup_url(config.scrap[i].url))}

\* the traversal of depth 1 from PageR, which links to PageA inside and to PageO
\* outside, has completed with PageR and PageA visited
C6_Witness ==
    /\ NoExternalRun
    /\ main_pc = "returned"
    /\ fetch_failures = 0
    /\ Len(config.scrap) = 1 /\ config.scrap[1].item.depth = 1
    /\ Cardinality(InternalLinks(PageR)) = 1 /\ ExternalLinks(PageR) = {PageO}
    /\ FetchedPages = {PageR, PageA}
    /\ VISITED_URLS = {PageR, PageA}

(***************************************************************************)
(* Properties of the persistence layer                                     *)
(***************************************************************************)

BlockOf(item) == <<"# ">> \o item.url \o <<"\n\n">> \o item.content

\* the calls of save_log that belong to a domain
CallsOf(domain) == SelectSeq(save_log, LAMBDA c : SaveDomain(c.url) = domain)

\* those of them whose content the strategy accepts
AcceptedOf(domain) == SelectSeq(CallsOf(domain), LAMBDA c : ~IsBlank(c.content))

UrlsOf(items) == [i \in 1..Len(items) |-> items[i].url]

\* the urls lists of the SavedDomainFileInfo records of a domain, in append order
RecordUrls(domain) ==
    LET recs == SelectSeq(saved_files, LAMBDA r : r.domain = domain)
    IN  [i \in 1..Len(recs) |-> recs[i].urls]

\* s cut into consecutive groups of n elements, the last one possibly shorter
RECURSIVE Chunks(_, _)
Chunks(s, n) ==
    IF s = <<>> THEN <<>>
    ELSE IF Len(s) <= n THEN <<s>>
    ELSE <<SubSeq(s, 1, n)>> \o Chunks(SubSeq(s, n + 1, Len(s)), n)

FullChunks(s, n) == SelectSeq(Chunks(s, n), LAMBDA c : Len(c) = n)

\* the byte threshold is not reached while items are buffered in groups of n
ByteThresholdNotReached(items, n) ==
    \A i \in 1..Len(Chunks(items, n)) :
        SumContentLen(Chunks(items, n)[i]) < strategy.flush_size_mb

AfterFirstFinalize == last_call.op = "finalize" /\ n_finalize = 1

\* C7: with the buffered strategy and no I/O failure, after the saves and finalize
\* the file <domain>.md holds one block for every (url, content) pair accepted for
\* that domain, those written by earlier flushes included.
C7_FileHoldsEverySavedPair ==
    (IsFilePerDomain /\ last_call.op = "finalize" /\ io_failures = 0) =>
        \A d \in Domains :
            \A i \in 1..Len(AcceptedOf(d)) :
                /\ disk[DomainFile(d)] # None
                /\ IsInfix(BlockOf(AcceptedOf(d)[i]), disk[DomainFile(d)])

\* C8 as stated: with bufferSize = n and the byte threshold not reached, the k saves
\* of non-empty content of a domain followed by finalize leave ceil(k/n) records,
\* the i-th holding the i-th group of n URLs in save order.
C8_RecordsAreGroupsOfNonEmptySaves ==
    (IsFilePerDomain /\ AfterFirstFinalize) =>
        \A d \in Domains :
            ByteThresholdNotReached(CallsOf(d), strategy.buffer_size) =>
                RecordUrls(d) = Chunks(UrlsOf(CallsOf(d)), strategy.buffer_size)

\* C8 amended: the same for the saves of non-blank content (content that is not
\* only whitespace) when no flush fails; before finalize the records are the full
\* groups and the buffer holds the remainder.
C8_RecordsAreGroupsOfAcceptedSaves ==
    (IsFilePerDomain /\ io_failures = 0) =>
        \A d \in Domains :
            ByteThresholdNotReached(AcceptedOf(d), strategy.buffer_size) =>
                /\ n_finalize = 0 =>
                      /\ RecordUrls(d) =
                            FullChunks(UrlsOf(AcceptedOf(d)), strategy.buffer_size)
                      /\ Len(buffers[d]) = Len(AcceptedOf(d)) % strategy.buffer_size
                /\ AfterFirstFinalize =>
                      RecordUrls(d) = Chunks(UrlsOf(AcceptedOf(d)), strategy.buffer_size)

\* witness of C8: three saves accepted for one domain with bufferSize 2, then
\* finalize: two records, the first with the first two URLs
C8_Witness ==
    /\ IsFilePerDomain /\ AfterFirstFinalize /\ io_failures = 0
    /\ strategy.buffer_size = 2
    /\ \E d \in Domains :
          /\ Len(AcceptedOf(d)) = 3
          /\ ByteThresholdNotReached(AcceptedOf(d), 2)
          /\ Len(RecordUrls(d)) = 2
          /\ RecordUrls(d)[1] = SubSeq(UrlsOf(AcceptedOf(d)), 1, 2)

\* C9 as stated: after finalize() returns every domain's buffer is empty and its
\* byte counter is zero.
C9_BuffersEmptyAfterFinalize ==
    (IsFilePerDomain /\ last_call.op = "finalize") =>
        \A d \in Domains : buffers[d] = <<>> /\ buffer_sizes[d] = 0

\* C9 amended: after a finalize() none of whose flushes failed with an I/O error,
\* every domain's buffer is empty and its byte counter is zero.
C9_BuffersEmptyAfterCleanFinalize ==
    (IsFilePerDomain /\ last_call.op = "finalize" /\ last_call.io_errors = 0) =>
        \A d \in Domains : buffers[d] = <<>> /\ buffer_sizes[d] = 0

\* witness of C9: finalize has flushed a remainder left by the saves, after a
\* threshold-triggered flush
C9_Witness ==
    /\ IsFilePerDomain /\ AfterFirstFinalize /\ last_call.io_errors = 0
    /\ \E d \in Domains : Len(RecordUrls(d)) = 2
    /\ \A d \in Domains : buffers[d] = <<>>

IsFinalizeStep == n_finalize' = n_finalize + 1

FinalizeChangedNothing ==
    /\ disk' = disk
    /\ saved_files' = saved_files
    /\ buffers' = buffers
    /\ buffer_sizes' = buffer_sizes
    /\ ~last_call'.raised

\* C10 as stated: a second finalize() directly after a first one does not raise,
\* writes no file and appends no record.
C10_SecondFinalizeIsNoOp ==
    [][(IsFinalizeStep /\ last_call.op = "finalize") => FinalizeChangedNothing]_vars

\* C10 amended: finalize never raises; a finalize with no pending buffer, and so a
\* second finalize directly after a first one none of whose flushes failed, writes
\* no file and appends no record.
C10_FinalizeWithoutPendingIsNoOp ==
    [][IsFinalizeStep =>
          /\ ~last_call'.raised
          /\ (\/ \A d \in Domains : buffers[d] = <<>>
              \/ last_call.op = "finalize" /\ last_call.io_errors = 0)
                => FinalizeChangedNothing]_vars

\* witness of C10: a second finalize directly after a first one that flushed
C10_Witness ==
    /\ last_call.op = "finalize" /\ n_finalize = 2 /\ io_failures = 0
    /\ saved_files # <<>>

\* the URL lists of a sequence of records, one after the other
RECURSIVE Flatten(_)
Flatten(ss) == IF ss = <<>> THEN <<>> ELSE Head(ss) \o Flatten(Tail(ss))

\* the records of a domain
RecordsOf(saved, domain) == SelectSeq(saved, LAMBDA r : r.domain = domain)

\* every accepted item of every domain is in a record or still in the buffer, in
\* save order
ItemsAccountedFor ==
    \A d \in Domains :
        UrlsOf(AcceptedOf(d)) = Flatten(RecordUrls(d)) \o UrlsOf(buffers[d])

\* what a step did to domain d, whose buffer was pending before the flush: the
\* flush failed and changed nothing of the domain, or it wrote all of pending
FlushKeptOrWrote(d, pending) ==
    \/ /\ buffers'[d] = pending
       /\ buffer_sizes'[d] = SumContentLen(pending)
       /\ RecordsOf(saved_files', d) = RecordsOf(saved_files, d)
    \/ /\ buffers'[d] = <<>>
       /\ buffer_sizes'[d] = 0
       /\ RecordsOf(saved_files', d) =
             Append(RecordsOf(saved_files, d), SavedDomainFileInfo(d, pending))
       /\ disk'[DomainFile(d)] = FlushText(pending, 1)

\* C11: a flush that fails with an I/O error leaves the domain's buffer and byte
\* counter as they were and appends no record; the next flush that succeeds
\* writes exactly the pending items, so every accepted item is in a record or
\* in the buffer
C11_FailedFlushKeepsItems ==
    [][IsFilePerDomain =>
          /\ ItemsAccountedFor'
          /\ \A d \in Domains : buffer_sizes'[d] = SumContentLen(buffers'[d])
          /\ IsFinalizeStep =>
                \A d \in Domains :
                    /\ FlushKeptOrWrote(d, buffers[d])
                    /\ last_call'.io_errors = 0 => buffers'[d] = <<>>
          /\ (n_calls' = n_calls + 1 /\ last_call'.io_errors > 0) =>
                \E d \in Domains :
                    /\ Len(buffers'[d]) = Len(buffers[d]) + 1
                    /\ SubSeq(buffers'[d], 1, Len(buffers[d])) = buffers[d]
                    /\ RecordsOf(saved_files', d) = RecordsOf(saved_files, d)
                    /\ saved_files' = saved_files]_vars

\* a flush failed at the second save of a domain and the third save flushed the
\* three items together
C11_Witness ==
    /\ IsFilePerDomain /\ io_failures = 1 /\ n_finalize = 0
    /\ \E d \in Domains :
          /\ Len(AcceptedOf(d)) = 3
          /\ buffers[d] = <<>>
          /\ RecordUrls(d) = <<UrlsOf(AcceptedOf(d))>>
          /\ \A i \in 1..3 : IsInfix(BlockOf(AcceptedOf(d)[i]), disk[DomainFile(d)])

\* C12: for either strategy, a save whose directory creation or file write fails
\* does not raise and returns the empty path
C12_FailedSaveReturnsEmpty ==
    (last_call.op = "save" /\ last_call.io_errors > 0) =>
        /\ ~last_call.raised
        /\ last_call.ret = <<>>

\* a step that is a save(url, content) call with empty content
IsEmptySaveStep == n_calls' = n_calls + 1 /\ save_log' = save_log

\* C13: save(url, content) with empty content is a no-op for both strategies: it
\* returns the empty path and leaves the buffers, the byte counters, the records
\* and the files unchanged
C13_EmptySaveIsNoOp ==
    [][IsEmptySaveStep =>
          /\ last_call'.ret = <<>>
          /\ ~last_call'.raised
          /\ buffers' = buffers
          /\ buffer_sizes' = buffer_sizes
          /\ buffer_keys' = buffer_keys
          /\ saved_files' = saved_files
          /\ disk' = disk]_vars

\* an empty save made after a save that wrote or buffered something
C13_Witness ==
    /\ last_call.op = "save" /\ last_call.ret = <<>> /\ last_call.io_errors = 0
    /\ n_calls = 2 /\ Len(save_log) = 1
    /\ ~IsBlank(save_log[1].content)
    /\ \/ saved_files # <<>>
       \/ \E d \in Domains : buffers[d] # <<>>

\* the text of a batch: the blocks of its items in order, the delimiter between
\* consecutive blocks
RECURSIVE BatchText(_)
BatchText(items) ==
    IF items = <<>> THEN <<>>
    ELSE IF Len(items) = 1 THEN BlockOf(items[1])
    ELSE BatchText(SubSeq(items, 1, Len(items) - 1))
            \o <<"\n\n---\n\n">> \o BlockOf(items[Len(items)])

\* the accepted saves of a domain that its last record stands for
LastBatch(d) ==
    LET recs == RecordUrls(d)
        before == Len(Flatten(SubSeq(recs, 1, Len(recs) - 1)))
    IN  SubSeq(AcceptedOf(d), before + 1, before + Len(recs[Len(recs)]))

\* C14: a flush writes the items of the batch in the order save appended them,
\* each as a heading with its URL followed by its content, the delimiter
\* between consecutive items, none reordered, duplicated or omitted
C14_FlushWritesBatchInOrder ==
    IsFilePerDomain =>
        \A d \in Domains :
            (RecordUrls(d) # <<>> /\ disk[DomainFile(d)] # Truncated) =>
                /\ UrlsOf(LastBatch(d)) = RecordUrls(d)[Len(RecordUrls(d))]
                /\ disk[DomainFile(d)] = BatchText(LastBatch(d))

\* a flushed batch of three items of two different URLs
C14_Witness ==
    /\ IsFilePerDomain
    /\ \E d \in Domains :
          /\ RecordUrls(d) # <<>>
          /\ Len(LastBatch(d)) = 3
          /\ LastBatch(d)[1].url # LastBatch(d)[2].url
          /\ disk[DomainFile(d)] = BatchText(LastBatch(d))

\* the calls that have run, in the order they were made, that save accepts for d
RanCallsOf(d) ==
    SelectSeq(SubSeq(spawned, 1, n_calls),
              LAMBDA c : SaveDomain(c.url) = d /\ ~IsBlank(c.content))

\* the URLs of the batches save and finalize wrote for d so far, then its buffer
WrittenThenBuffered(d) == Flatten(RecordUrls(d)) \o UrlsOf(buffers[d])

\* C15: save calls of one domain made by concurrent tasks run one after the
\* other, each append-then-maybe-flush whole: no item is lost or written twice,
\* and the items are written in the order the calls were made
C15_ConcurrentSavesKeepCallOrder ==
    IsFilePerDomain =>
        \A d \in Domains :
            /\ WrittenThenBuffered(d) = UrlsOf(RanCallsOf(d))
            /\ (RecordUrls(d) # <<>> /\ disk[DomainFile(d)] # Truncated) =>
                  disk[DomainFile(d)] = BatchText(LastBatch(d))
            /\ (n_finalize > 0 /\ io_failures = 0) => buffers[d] = <<>>

\* three calls were made before any of them ran; they have all run and their
\* items, of two URLs, are in records in call order
C15_Witness ==
    /\ IsFilePerDomain /\ n_finalize = 1 /\ io_failures = 0
    /\ Len(spawned) = 3 /\ n_calls = 3
    /\ spawned[3].ahead = 2
    /\ spawned[1].url # spawned[2].url
    /\ \A i \in 1..3 : ~IsBlank(spawned[i].content)
    /\ Flatten(RecordUrls(<<"a.com">>)) = UrlsOf(spawned)


(***************************************************************************)
(* Per-page files: properties                                              *)
(***************************************************************************)

\* C16: with the per-page strategy, two different URLs that were saved have two
\* different file paths, URLs of one host that differ only in the query included
C16_DistinctUrlsDistinctFiles ==
    IsFolderPerDomain =>
        \A i, j \in 1..Len(saved_files) :
            saved_files[i].url # saved_files[j].url =>
                saved_files[i].path # saved_files[j].path

\* the sanitized path name of the URL is longer than the limit
IsLongName(url) == StrLen(SafeChars(PathName(url))) > max_file_name_len

\* the part of the sanitized path name that survives the truncation
TruncatedPrefix(url) == TakeChars(SafeChars(PathName(url)), max_file_name_len - 33)

\* C17: two different saved URLs of one host whose sanitized path names are longer
\* than 120 characters and have the same truncated prefix have different file names
C17_LongUrlsDistinctNames ==
    IsFolderPerDomain =>
        \A i, j \in 1..Len(saved_files) :
            ( /\ saved_files[i].url # saved_files[j].url
              /\ extract_domain(saved_files[i].url) = extract_domain(saved_files[j].url)
              /\ IsLongName(saved_files[i].url)
              /\ IsLongName(saved_files[j].url)
              /\ TruncatedPrefix(saved_files[i].url) = TruncatedPrefix(saved_files[j].url) )
            => saved_files[i].path # saved_files[j].path

\* s without the elements whose index, counted from i, is in S
RECURSIVE Without(_, _, _)
Without(s, S, i) ==
    IF s = <<>> THEN <<>>
    ELSE (IF i \in S THEN <<>> ELSE <<Head(s)>>) \o Without(Tail(s), S, i + 1)

\* the saves of non-empty content, in call order, and the record of each
NonBlankSaves == SelectSeq(save_log, LAMBDA c : ~IsBlank(c.content))

RecordOfSave(c) == SavedFileInfo(c.url, BuildFilePath(c.url), c.content)

\* C18: with the per-page strategy the saved files are the records of the saves of
\* non-empty content whose write succeeded, one each and in save order; a save
\* that failed or had empty content has no record
C18_OneRecordPerSuccessfulWrite ==
    IsFolderPerDomain =>
        LET want == [i \in 1..Len(NonBlankSaves) |-> RecordOfSave(NonBlankSaves[i])]
        IN  \E S \in SUBSET (1..Len(want)) :
                /\ Cardinality(S) = io_failures
                /\ saved_files = Without(want, S, 1)

\* three saves were made: one of blank content, one that failed and one that wrote
C18_Witness ==
    /\ IsFolderPerDomain
    /\ n_calls = 3
    /\ io_failures = 1
    /\ Len(NonBlankSaves) = 2
    /\ Len(save_log) = 3
    /\ Len(saved_files) = 1
    /\ last_call.op = "save" /\ last_call.ret = saved_files[1].path

(***************************************************************************)
(* URL normalization: properties                                           *)
(***************************************************************************)

\* C19: normalizing a normalized URL changes nothing: the second result of a
\* function equals its first result
C19_NormalizeIdempotent ==
    (Len(normalized) = 3 /\ normalized[3] # ValueError) => normalized[3] = normalized[2]

\* C20: normalization never raises, whatever the input, a query string included
C20_NormalizeNeverRaises ==
    \A i \in 1..Len(normalized) : normalized[i] # ValueError

(***************************************************************************)
(* Crawl orchestrator: skip pattern, failed fetches, visited set           *)
(***************************************************************************)

\* C21: in a traversal whose root item has a skip pattern, no URL whose cleaned
\* form matches the pattern is fetched, at whatever depth it was found
C21_SkipRegexNeverFetched ==
    \A t \in fetched :
        (RootItem(t).some /\ Len(RootItem(t).paths_to_skip_regex) > 0) =>
            ~RegexMatches(RootItem(t).paths_to_skip_regex, TaskUrl(t))

\* C30: when main() has returned, every URL of the flat list and the URL of every
\* scrap item is, cleaned, in VISITED_URLS
C30_ConfiguredUrlsVisited ==
    main_pc = "returned" =>
        /\ \A u \in config.urls : cleanup_url(u) \in VISITED_URLS
        /\ \A i \in 1..Len(config.scrap) : cleanup_url(config.scrap[i].url) \in VISITED_URLS

\* a step in which a fetch fails: crawler.arun answers with success = False, or no
\* transcript is returned for a video
FetchFailed == fetch_failures' = fetch_failures + 1

\* the process_url task that ends in this step
EndingTasks == {t \in DOMAIN tasks : tasks[t].pc # tasks'[t].pc}

\* the URL of task t was dealt with: fetched by some task (or, in a dry run, a
\* video that is only marked), or left out by the skip pattern
DealtWith(t) == TaskUrl(t) \in VISITED_URLS \/ Skipped(t)

FailedFetchStep ==
    FetchFailed =>
        /\ files' = files
        /\ crawls' = crawls
        /\ store_failures' = store_failures
        /\ \A t \in EndingTasks : tasks'[t].pc = "done"
        /\ \A t \in DOMAIN tasks \ EndingTasks : tasks'[t] = tasks[t]

RunCompletesDespiteFailedFetches ==
    /\ main_pc = "raised" => store_failures > 0
    /\ (main_pc = "returned" /\ store_failures = 0) =>
          /\ \A c \in DOMAIN crawls : crawls[c].pc = "done"
          /\ \A c \in DOMAIN crawls :
                ~CrawlReturnsAtOnce(c) =>
                    \A u \in crawls[c].urls :
                        /\ (c \o <<u>>) \in DOMAIN tasks
                        /\ tasks[c \o <<u>>].pc = "done"
                        /\ DealtWith(c \o <<u>>)

\* C28: a failed fetch ends only the process_url task of its URL, as done: nothing
\* is stored, no child crawl is created and no other task changes; the run does
\* not raise because of it, and when it returns every URL of every crawl that was
\* started has been fetched, was already visited or was left out by the skip pattern
C28_FailedFetchEndsOnlyItsBranch ==
    [][FailedFetchStep]_vars /\ []RunCompletesDespiteFailedFetches

C28_Witness ==
    /\ main_pc = "returned"
    /\ fetch_failures > 0
    /\ store_failures = 0
    /\ \E c \in DOMAIN crawls :
          /\ Cardinality(crawls[c].urls) > 1
          /\ \A u \in crawls[c].urls : (c \o <<u>>) \in fetched
    /\ files # {}


(***************************************************************************)
(* Deep crawl of one item: src/src/docs_crawler/base.py (filter chain and  *)
(* strategy) and deepcrawl_runner.py.  A hostname is written label by      *)
(* label, with "." tokens between the labels.                              *)
(***************************************************************************)

StartsWith(s, prefix) == Len(prefix) <= Len(s) /\ SubSeq(s, 1, Len(prefix)) = prefix

EndsWith(s, suffix) ==
    Len(suffix) <= Len(s) /\ SubSeq(s, Len(s) - Len(suffix) + 1, Len(s)) = suffix

\* utils.is_same_domain(url1, url2)
is_same_domain(url1, url2) ==
    /\ extract_domain(url1) # <<>>
    /\ extract_domain(url2) # <<>>
    /\ extract_domain(url1) = extract_domain(url2)

\* utils.is_subdomain(url1, url2)
is_subdomain(url1, url2) ==
    LET domain1 == extract_domain(url1)
        domain2 == extract_domain(url2)
    IN  /\ domain1 # <<>>
        /\ domain2 # <<>>
        /\ EndsWith(domain1, <<".">> \o domain2) \/ domain1 = domain2

\* re.compile(pattern) raises re.error; the malformed patterns of the model are
\* those with a group that is never closed
ReCompileRaises(pattern) == \E i \in 1..Len(pattern) : pattern[i] = "("

\* C4ABase._extract_domain(url): the hostname without a leading www.
_extract_domain(url) ==
    LET domain == Hostname(url)
    IN  IF domain # None /\ domain[1] = "www." THEN Tail(domain) ELSE domain

\* the pattern ^.*\.?<domain>(:\d+)?.* of include_subdomains: every part but the
\* domain may match nothing, so the URL matches when the domain occurs in it
SubdomainPatternAsSameSite(domain, url) ==
    IsInfix(SubSeq(domain, Len(domain) - 2, Len(domain)), url)

SubdomainPattern(domain, url) == IsInfix(domain, url)

\* the pattern ^https?://(www\.)?<domain>(:\d+)?.* : the URL starts with the
\* scheme, an optional www. and the domain
ExactPattern(domain, url) ==
    /\ HasScheme(url)
    /\ \/ StartsWith(Tail(url), domain)
       \/ StartsWith(Tail(url), <<"www.">> \o domain)

URLPatternFilter(kind, patterns, reverse) ==
    [kind |-> kind, patterns |-> patterns, reverse |-> reverse]

\* URLPatternFilter.apply(url): the pattern decides, reverse inverts
ApplyFilter(f, url) ==
    LET matches == CASE f.kind = "skip" -> RegexMatches(f.patterns, url)
                     [] f.kind = "subdomain" -> SubdomainPattern(f.patterns, url)
                     [] f.kind = "exact" -> ExactPattern(f.patterns, url)
    IN  matches # f.reverse

\* C4ABase.build_filter_chain(item)
build_filter_chain(item) ==
    LET skip == IF item.paths_to_skip_regex # <<>>
                     /\ ~ReCompileRaises(item.paths_to_skip_regex)
                THEN << URLPatternFilter("skip", item.paths_to_skip_regex, TRUE) >>
                ELSE <<>>
        domain == _extract_domain(item.url)
    IN  IF item.include_subdomains
        THEN skip \o << URLPatternFilter("subdomain", domain, FALSE) >>
        ELSE skip \o << URLPatternFilter("exact", domain, FALSE) >>

\* FilterChain.apply(url): every filter of the chain accepts the URL
ApplyFilterChain(filters, url) ==
    \A i \in 1..Len(filters) : ApplyFilter(filters[i], url)

\* the strategy built by build_best_first_strategy decides a discovered link: the
\* links the fetcher reports as external are candidates only with
\* include_external, and every candidate must pass the filter chain
StrategyAdmits(item, filters, link, internal) ==
    /\ internal \/ item.include_external
    /\ ApplyFilterChain(filters, link)

\* the roots and the links of the model
DeepRoots ==
    { <<"https://", "a", ".", "example", ".", "com">>,
      <<"https://", "example", ".", "com">>,
      <<"http://", "www.", "forum", ".", "systim", ".", "pl", "/", "test">> }

DeepLinks ==
    { <<"https://", "b", ".", "example", ".", "com", "/", "x">>,
      <<"https://", "a", ".", "example", ".", "com", "/", "x">>,
      <<"https://", "x", ".", "a", ".", "example", ".", "com", "/", "y">>,
      <<"https://", "www.", "a", ".", "example", ".", "com", "/">>,
      <<"https://", "other", ".", "com", "/", "x">>,
      <<"https://", "example", ".", "com", ".", "other", ".", "org", "/">>,
      <<"https://", "not", "example", ".", "com", "/">>,
      <<"https://", "other", ".", "com", "/", "?", "u=", "forum", ".", "systim", ".", "pl">>,
      <<"https://", "test", ".", "forum", ".", "systim", ".", "pl", "/", "x">>,
      <<"https://", "inne", ".", "systim", ".", "pl", "/", "x">>,
      <<"http://", "forum", ".", "systim", ".", "pl", "/", "test", "/", "x">> }

SkipPatterns == { <<>>, <<"x">>, <<"(">> }

\* config.Item, the fields the deep crawl reads
DeepItems ==
    [url : DeepRoots, include_subdomains : BOOLEAN, include_external : BOOLEAN,
     paths_to_skip_regex : SkipPatterns]

DeepCrawl(pc, item, filters, link, internal, admitted) ==
    [pc |-> pc, item |-> item, filters |-> filters, link |-> link,
     internal |-> internal, admitted |-> admitted]

\* the item as written in the configuration file
DeepCrawlInit ==
    \E item \in DeepItems :
        deep_crawl = DeepCrawl("config", item, <<>>, <<>>, FALSE, FALSE)

\* load_config: the item is built from the file as it is
LoadItem ==
    /\ deep_crawl.pc = "config"
    /\ deep_crawl' = [deep_crawl EXCEPT !.pc = "loaded"]
    /\ UNCHANGED << pvars, cvars, spawned, uvars, run >>

\* DeepCrawlRunner.run up to crawler.arun: build the strategy and its filter chain
BuildStrategy ==
    /\ deep_crawl.pc = "loaded"
    /\ deep_crawl' = [deep_crawl EXCEPT !.pc = "crawling",
                                        !.filters = build_filter_chain(deep_crawl.item)]
    /\ UNCHANGED << pvars, cvars, spawned, uvars, run >>

\* the traversal decides a link discovered on a fetched page
DecideLink(link, internal) ==
    /\ deep_crawl.pc = "crawling"
    /\ deep_crawl' = [deep_crawl EXCEPT
                         !.link = link,
                         !.internal = internal,
                         !.admitted = StrategyAdmits(deep_crawl.item, deep_crawl.filters,
                                                     link, internal)]
    /\ UNCHANGED << pvars, cvars, spawned, uvars, run >>

DeepCrawlNext ==
    \/ LoadItem
    \/ BuildStrategy
    \/ \E link \in DeepLinks, internal \in BOOLEAN : DecideLink(link, internal)

DeepCrawlSpecInit ==
    DeepCrawlInit /\ PersistIdle /\ CrawlIdle /\ NoSpawn /\ NormalizeIdle /\ RunIdle

DeepCrawlSpec == DeepCrawlSpecInit /\ [][DeepCrawlNext]_vars


(***************************************************************************)
(* Properties of the filter chain                                          *)
(***************************************************************************)

\* the traversal has decided a link
LinkDecided == deep_crawl.pc = "crawling" /\ deep_crawl.link # <<>>

\* the link of the last decision matches the skip pattern of the item
MatchesSkipPattern ==
    /\ deep_crawl.item.paths_to_skip_regex # <<>>
    /\ RegexMatches(deep_crawl.item.paths_to_skip_regex, deep_crawl.link)

\* the filter chain of the item accepts the link of the last decision
ChainAccepts == ApplyFilterChain(deep_crawl.filters, deep_crawl.link)

\* the hostname of the link lies in the domain scope of the root
InScope ==
    IF deep_crawl.item.include_subdomains
    THEN is_subdomain(deep_crawl.link, deep_crawl.item.url)
    ELSE is_same_domain(deep_crawl.link, deep_crawl.item.url)

\* C22: with include_subdomains = False the filter chain accepts a link only if
\* its hostname without www. equals the root's
C22_ExactModeAcceptsOnlySameHost ==
    (LinkDecided /\ ~deep_crawl.item.include_subdomains /\ ChainAccepts) =>
        is_same_domain(deep_crawl.link, deep_crawl.item.url)

\* C23: with include_subdomains = True (and no skip pattern) the filter chain
\* accepts a link exactly when its hostname equals the root's or ends with "."
\* and the root's hostname
C23_SubdomainModeAcceptsExactlySubdomains ==
    (LinkDecided /\ deep_crawl.item.include_subdomains
                 /\ deep_crawl.item.paths_to_skip_regex = <<>>) =>
        (ChainAccepts <=> is_subdomain(deep_crawl.link, deep_crawl.item.url))

\* the root and the link of the filter example
ExampleRoot == <<"https://", "a", ".", "example", ".", "com">>

ExampleLink == <<"https://", "b", ".", "example", ".", "com", "/", "x">>

IsExample ==
    /\ LinkDecided
    /\ deep_crawl.item.url = ExampleRoot
    /\ deep_crawl.link = ExampleLink
    /\ ~deep_crawl.item.include_external

\* C24 as stated: for root https://a.example.com without include_external, the
\* link https://b.example.com/x (reported by the fetcher as internal, no skip
\* pattern) is rejected with include_subdomains = False and accepted with True
C24_SiblingAcceptedWithSubdomains ==
    (IsExample /\ deep_crawl.internal /\ deep_crawl.item.paths_to_skip_regex = <<>>) =>
        (deep_crawl.admitted <=> deep_crawl.item.include_subdomains)

\* C24: for root https://a.example.com without include_external, the link
\* https://b.example.com/x is rejected with either value of include_subdomains:
\* b.example.com is not a.example.com nor a subdomain of it
C24_SiblingRejectedInBothModes ==
    IsExample => (~deep_crawl.admitted /\ ~ChainAccepts)

C24_Witness ==
    /\ IsExample
    /\ deep_crawl.item.include_subdomains
    /\ deep_crawl.internal
    /\ deep_crawl.item.paths_to_skip_regex = <<>>
    /\ ~deep_crawl.admitted

\* C25: a link whose hostname is outside the domain scope of the root and that
\* does not match the skip pattern is rejected without include_external and
\* admitted with it
C25_ExternalAdmittedOnlyWithIncludeExternal ==
    (LinkDecided /\ ~InScope /\ ~MatchesSkipPattern
                 /\ ~ReCompileRaises(deep_crawl.item.paths_to_skip_regex)) =>
        (deep_crawl.admitted <=> deep_crawl.item.include_external)

\* C26: no traversal runs for an item whose skip pattern is malformed
C26_MalformedSkipPatternStopsTheRun ==
    deep_crawl.pc = "crawling" =>
        ~ReCompileRaises(deep_crawl.item.paths_to_skip_regex)


(***************************************************************************)
(* One run of the command line: src/src/docs_crawler/cli.py, run_crawler   *)
(***************************************************************************)

\* the defaults of the factory for the buffered strategy
DefaultBufferSize == 100
DefaultFlushSizeMB == 10

\* create_persistence_strategy(strategy, output_dir): the strategy object; kind
\* "ValueError" stands for the exception raised for a name that is not supported
CreatePersistenceStrategyAsFolderByDefault(name) ==
    IF name = "file_per_domain"
    THEN [kind |-> "file_per_domain", buffer_size |-> DefaultBufferSize,
          flush_size_mb |-> DefaultFlushSizeMB * MBScale]
    ELSE [kind |-> "folder_per_domain", buffer_size |-> 0, flush_size_mb |-> 0]

create_persistence_strategy(name) ==
    IF name = "folder_per_domain"
    THEN [kind |-> "folder_per_domain", buffer_size |-> 0, flush_size_mb |-> 0]
    ELSE IF name = "file_per_domain"
    THEN [kind |-> "file_per_domain", buffer_size |-> DefaultBufferSize,
          flush_size_mb |-> DefaultFlushSizeMB * MBScale]
    ELSE [kind |-> "ValueError", buffer_size |-> 0, flush_size_mb |-> 0]

\* the configurations of the model: the strategy name, --dry-run, and at most one
\* video, one flat item and one deep-crawl item
StrategyNames == {"folder_per_domain", "file_per_domain", "sqlite"}

FlatUrl == <<"https://", "a.com", "/", "p1">>

DeepUrl == <<"https://", "b.org", "/">>

RunConfigs ==
    [persistence_strategy : StrategyNames, dry_run : BOOLEAN,
     youtube : {<<>>, <<"id1">>}, flat : {<<>>, <<FlatUrl>>}, deep : {<<>>, <<DeepUrl>>}]

\* run_crawler is called: nothing is loaded and no strategy object exists
RunInit ==
    \E c \in RunConfigs :
        run = [pc |-> "load", config |-> c, youtube |-> c.youtube, flat |-> c.flat,
               deep |-> c.deep, fetches |-> 0, error |-> "none",
               output_dir |-> FALSE, base |-> "none",
               success |-> 0, failed |-> 0, skipped |-> 0]

\* config = load_config(config_path), then Path(output_dir).mkdir(...); a missing
\* or malformed file raises
RunLoadConfig(ok) ==
    /\ run.pc = "load"
    /\ run' = IF ok THEN [run EXCEPT !.pc = "persistence", !.output_dir = TRUE]
              ELSE [run EXCEPT !.pc = "exit1", !.error = "config"]
    /\ UNCHANGED << pvars, cvars, spawned, uvars, deep_crawl >>

\* persistence = create_persistence_strategy(config.persistence_strategy, output_dir)
RunCreatePersistence ==
    LET made == create_persistence_strategy(run.config.persistence_strategy)
    IN  /\ run.pc = "persistence"
        /\ IF made.kind = "ValueError"
           THEN /\ run' = [run EXCEPT !.pc = "exit1", !.error = "ValueError"]
                /\ UNCHANGED strategy
           ELSE /\ run' = [run EXCEPT !.pc = "items"]
                /\ strategy' = made
        /\ UNCHANGED << buffers, buffer_sizes, buffer_keys, saved_files, disk, last_call,
                        save_log, n_finalize, io_failures, n_calls >>
        /\ UNCHANGED << cvars, spawned, uvars, deep_crawl >>

\* persistence.save(url, content) of the strategy of the run
PersistenceSave(url, content, io) ==
    /\ \/ FileSave(url, content, io)
       \/ FolderSave(url, content, io)
    /\ UNCHANGED << strategy, n_finalize >>

NoSave(io) == io = "ok" /\ UNCHANGED pvars

\* the dry_run argument of run_crawler, tested before every fetch
DryRunAsNever(r) == FALSE

DryRun(r) == r.config.dry_run

\* the counter of the runner's stats that a result adds one to; raised tells
\* whether _save_markdown raised
ResultStat(success, markdown, raised) ==
    IF ~success THEN "failed"
    ELSE IF IsBlank(markdown) THEN "skipped"
    ELSE IF raised THEN "failed"
    ELSE "success"

Counted(r, stat) == [r EXCEPT ![stat] = @ + 1]

\* async with C4ABase(config.defaults) as base: AsyncWebCrawler is started, in a
\* dry run too; an exception of the start ends the run
RunEnterBase(ok) ==
    /\ run.pc = "items"
    /\ run.youtube = <<>>
    /\ run.base = "none"
    /\ run' = IF ok THEN [run EXCEPT !.base = "open"]
              ELSE [run EXCEPT !.pc = "exit1", !.error = "crawl"]
    /\ UNCHANGED << pvars, cvars, spawned, uvars, deep_crawl >>

\* one turn of the loop over config.youtube: save_transcript fetches the
\* transcript and saves it; an exception of save ends the run
ProcessYoutube(ok, io) ==
    LET video_id == Head(run.youtube)
        transcript_text == IF ok THEN <<"x">> ELSE <<>>
        raised == IsFolderPerDomain /\ io = "mkdir_fails"
    IN  /\ run.pc = "items"
        /\ run.youtube # <<>>
        /\ IF DryRun(run)
           THEN /\ ok /\ NoSave(io)
                /\ run' = [run EXCEPT !.youtube = Tail(@)]
           ELSE IF transcript_text = <<>>
           THEN /\ NoSave(io)
                /\ run' = [run EXCEPT !.youtube = Tail(@), !.fetches = @ + 1]
           ELSE /\ PersistenceSave(YoutubeUrl(video_id), transcript_text, io)
                /\ run' = IF raised
                          THEN [run EXCEPT !.pc = "exit1", !.error = "save",
                                           !.fetches = @ + 1]
                          ELSE [run EXCEPT !.youtube = Tail(@), !.fetches = @ + 1]
        /\ UNCHANGED << cvars, spawned, uvars, deep_crawl >>

\* what a runner does with a result: a failed fetch and blank markdown are
\* counted and left; other markdown is saved, an exception of save is logged
ProcessResult(url, success, markdown, io) ==
    IF ~success \/ IsBlank(markdown) THEN NoSave(io)
    ELSE PersistenceSave(url, markdown, io)

\* BatchRunner.run(flat_items), unless this is a dry run; raises stands for an
\* exception of arun_many, which the runner logs and raises again
ProcessFlat(raises, success, markdown, io) ==
    /\ run.pc = "items"
    /\ run.youtube = <<>>
    /\ run.base = "open"
    /\ run.flat # <<>>
    /\ IF DryRun(run)
       THEN /\ ~raises /\ success /\ markdown = <<>> /\ NoSave(io)
            /\ run' = [run EXCEPT !.flat = Tail(@)]
       ELSE IF raises
       THEN /\ success /\ markdown = <<>> /\ NoSave(io)
            /\ run' = [run EXCEPT !.pc = "exit1", !.error = "crawl", !.fetches = @ + 1]
       ELSE /\ ProcessResult(Head(run.flat), success, markdown, io)
            /\ run' = Counted([run EXCEPT !.flat = Tail(@), !.fetches = @ + 1],
                              ResultStat(success, markdown,
                                         IsFolderPerDomain /\ io = "mkdir_fails"))
    /\ UNCHANGED << cvars, spawned, uvars, deep_crawl >>

\* DeepCrawlRunner.run(item) for the next deep-crawl item, unless this is a dry
\* run; raises stands for an exception of arun, which the runner logs and raises
\* again
ProcessDeep(raises, success, markdown, io) ==
    /\ run.pc = "items"
    /\ run.youtube = <<>>
    /\ run.base = "open"
    /\ run.flat = <<>>
    /\ run.deep # <<>>
    /\ IF DryRun(run)
       THEN /\ ~raises /\ success /\ markdown = <<>> /\ NoSave(io)
            /\ run' = [run EXCEPT !.deep = Tail(@)]
       ELSE IF raises
       THEN /\ success /\ markdown = <<>> /\ NoSave(io)
            /\ run' = [run EXCEPT !.pc = "exit1", !.error = "crawl", !.fetches = @ + 1]
       ELSE /\ ProcessResult(Head(run.deep), success, markdown, io)
            /\ run' = Counted([run EXCEPT !.deep = Tail(@), !.fetches = @ + 1],
                              ResultStat(success, markdown,
                                         IsFolderPerDomain /\ io = "mkdir_fails"))
    /\ UNCHANGED << cvars, spawned, uvars, deep_crawl >>

\* the point of run_crawler at which persistence.finalize() is awaited: after the
\* loop over the videos, the flat items and the deep-crawl items
FinalizeDueAsBeforeDeepItems(r) == r.youtube = <<>> /\ r.flat = <<>>

FinalizeDue(r) == r.youtube = <<>> /\ r.flat = <<>> /\ r.deep = <<>>

\* await persistence.finalize(), then "Crawling completed successfully"
RunFinalize(io) ==
    /\ run.pc = "items"
    /\ run.base = "open"
    /\ FinalizeDue(run)
    /\ \/ FileFinalize(io)
       \/ FolderFinalize /\ \A d \in Domains : io[d] = "ok"
    /\ run' = [run EXCEPT !.pc = "completed", !.base = "closed"]
    /\ UNCHANGED << cvars, spawned, uvars, deep_crawl >>

RunNext ==
    \/ \E ok \in BOOLEAN : RunLoadConfig(ok)
    \/ RunCreatePersistence
    \/ \E ok \in BOOLEAN, io \in IOOutcomes \cup {"mkdir_fails"} : ProcessYoutube(ok, io)
    \/ \E ok \in BOOLEAN : RunEnterBase(ok)
    \/ \E raises \in BOOLEAN, success \in BOOLEAN, markdown \in SaveContents,
          io \in IOOutcomes \cup {"mkdir_fails"} : ProcessFlat(raises, success, markdown, io)
    \/ \E raises \in BOOLEAN, success \in BOOLEAN, markdown \in SaveContents,
          io \in IOOutcomes \cup {"mkdir_fails"} : ProcessDeep(raises, success, markdown, io)
    \/ \E io \in [Domains -> IOOutcomes] : RunFinalize(io)

RunSpecInit ==
    RunInit /\ PersistIdle /\ CrawlIdle /\ NoSpawn /\ NormalizeIdle /\ DeepCrawlIdle

RunSpec == RunSpecInit /\ [][RunNext]_vars


(***************************************************************************)
(* Properties of the run                                                   *)
(***************************************************************************)

SupportedStrategies == {"folder_per_domain", "file_per_domain"}

\* the run has got past the factory
PersistenceCreated == run.pc \in {"items", "completed"} \/ run.error \in {"save", "crawl"}

\* C27: the factory gives the per-page strategy for "folder_per_domain" and the
\* buffered strategy for "file_per_domain"; for any other name the run ends with
\* the factory's ValueError and exit status 1, and no page or transcript was
\* fetched and no save was made before
C27_FactorySelectsOrFailsBeforeFetching ==
    /\ PersistenceCreated =>
          /\ run.config.persistence_strategy \in SupportedStrategies
          /\ strategy.kind = run.config.persistence_strategy
    /\ run.config.persistence_strategy \notin SupportedStrategies =>
          /\ run.fetches = 0
          /\ n_calls = 0
          /\ strategy.kind = "none"
          /\ run.pc \in {"load", "persistence", "exit1"}
    /\ run.error = "ValueError" =>
          /\ run.pc = "exit1"
          /\ run.config.persistence_strategy \notin SupportedStrategies
    /\ run.pc \in {"load", "persistence"} => run.fetches = 0

C27_Witness ==
    /\ run.pc = "exit1"
    /\ run.error = "ValueError"
    /\ run.config.persistence_strategy = "sqlite"
    /\ ~run.config.dry_run
    /\ run.config.youtube # <<>>
    /\ run.config.flat # <<>>

\* every video, flat item and deep-crawl item of the configuration has been dealt with
AllItemsProcessed == run.youtube = <<>> /\ run.flat = <<>> /\ run.deep = <<>>

NothingBuffered == \A d \in Domains : buffers[d] = <<>> /\ buffer_sizes[d] = 0

\* a step that calls persistence.finalize()
FinalizeCalled == n_finalize' # n_finalize

\* C29 as stated: a run that reports completion has called finalize exactly once,
\* after its last save and after every item, and nothing is buffered
C29_CompletedRunHasNothingBuffered ==
    run.pc = "completed" =>
        /\ n_finalize = 1
        /\ last_call.op = "finalize"
        /\ AllItemsProcessed
        /\ NothingBuffered

FinalizeOnlyAtTheEnd ==
    /\ FinalizeCalled =>
          /\ n_finalize = 0
          /\ AllItemsProcessed
          /\ run.pc = "items" /\ run'.pc = "completed"
    /\ n_finalize >= 1 => n_calls' = n_calls

CompletedAfterOneFinalize ==
    /\ run.pc = "completed" =>
          /\ n_finalize = 1
          /\ last_call.op = "finalize"
          /\ AllItemsProcessed
          /\ last_call.io_errors = 0 => NothingBuffered
    /\ run.pc # "completed" => n_finalize = 0

\* C29: finalize is called exactly once by a run that completes, in the step that
\* ends the run, after every video, flat item and deep-crawl item and after the
\* last save; nothing is buffered afterwards unless a flush of that finalize
\* failed with an I/O error, in which case the domain keeps its buffer
C29_FinalizeOnceAfterAllSaves ==
    [][FinalizeOnlyAtTheEnd]_vars /\ []CompletedAfterOneFinalize

C29_Witness ==
    /\ run.pc = "completed"
    /\ IsFilePerDomain
    /\ n_calls = 3
    /\ Len(saved_files) = 3
    /\ NothingBuffered


(***************************************************************************)
(* Properties of the orchestrator: skipped URLs, the last level, pages     *)
(* without text, termination                                               *)
(***************************************************************************)

\* task t returns in this step because the skip pattern of its item matches
SkipStep(t) ==
    /\ tasks[t].pc = "new"
    /\ tasks'[t].pc = "done"
    /\ ~AlreadyVisited(TaskUrl(t))
    /\ Skipped(t)

SkipLeavesVisited ==
    \A t \in DOMAIN tasks :
        SkipStep(t) => (VISITED_URLS' = VISITED_URLS /\ TaskUrl(t) \notin VISITED_URLS')

\* a URL is in VISITED_URLS only through a task that held the semaphore for it
VisitedOnlyByEntering ==
    \A u \in VISITED_URLS :
        \E t \in DOMAIN tasks :
            /\ TaskUrl(t) = u
            /\ t \in fetched \/ (IsYoutube(u) /\ config.dry_run)

\* when the run returns (no store raised), the URL of every task whose own item
\* does not leave it out is visited
UnskippedAreVisited ==
    (main_pc = "returned" /\ store_failures = 0) =>
        \A t \in DOMAIN tasks : ~Skipped(t) => TaskUrl(t) \in VISITED_URLS

\* C31: a process_url that returns because the skip pattern matches does not mark
\* its URL visited; a URL is marked only by a task that goes on to fetch it, so a
\* task of another item that does not leave the URL out still fetches it
C31_SkippedUrlStaysEligible ==
    [][SkipLeavesVisited]_vars /\ []VisitedOnlyByEntering /\ []UnskippedAreVisited

C31_Witness ==
    \E t1 \in DOMAIN tasks, t2 \in fetched :
        /\ TaskUrl(t1) = TaskUrl(t2)
        /\ tasks[t1].pc = "done"
        /\ Skipped(t1)
        /\ t1 \notin fetched
        /\ ~Skipped(t2)

\* the item of the branch (crawl_parallel call) that task t belongs to
BranchItem(t) == crawls[Front(t)].item

\* task t was created for a link of a page that a branch with depth 1 fetched
LinkOfLastBudgetedPage(t) ==
    /\ Len(t) > 2
    /\ BranchItem(Front(t)).some
    /\ BranchItem(Front(t)).depth = 1

\* C32 as stated: no link of a page fetched by a branch whose depth is 1 is fetched
C32_DepthOnePageDispatchesNothing ==
    \A t \in fetched : ~LinkOfLastBudgetedPage(t)

\* C32: the links of a page fetched by a branch whose depth is 1 are dispatched
\* once more, to a branch without item (depth - 1 is below 1, the item becomes
\* None); a page fetched by a branch without item causes no dispatch, whatever
\* links it has
C32_OnlyBranchWithoutItemEndsExpansion ==
    /\ \A t \in DOMAIN tasks : LinkOfLastBudgetedPage(t) => ~BranchItem(t).some
    /\ \A t \in DOMAIN tasks : ~BranchItem(t).some => t \notin DOMAIN crawls

C32_Witness ==
    \E t \in fetched :
        /\ LinkOfLastBudgetedPage(t)
        /\ tasks[t].pc = "done"
        /\ Hrefs(TaskUrl(t)) # {}
        /\ t \notin DOMAIN crawls
        /\ main_pc = "returned"

\* crawler.arun has returned to task t with success and process_url ends normally
SuccessfulFetchStep(t) ==
    /\ tasks[t].pc = "fetch"
    /\ tasks'[t].pc = "done"
    /\ fetch_failures' = fetch_failures

LinksDispatchedWhateverTheText ==
    \A t \in DOMAIN tasks :
        SuccessfulFetchStep(t) =>
            /\ Markdown(TaskUrl(t)) = <<>> => files' = files
            /\ (BranchItem(t).some /\ ChildLinks(TaskUrl(t), BranchItem(t)) # {}) =>
                  /\ t \in DOMAIN crawls'
                  /\ crawls'[t].urls = ChildLinks(TaskUrl(t), BranchItem(t))
                  /\ crawls'[t].item = ChildItem(BranchItem(t))
                  /\ crawls'[t].pc = "new"

\* C33: a page fetched with success in a branch that has an item gets a child
\* crawl for its links (the internal ones, the external ones if allowed, those
\* not yet visited) whether its markdown is empty or not; for empty markdown no
\* file is written
C33_EmptyPageStillExpands ==
    [][LinksDispatchedWhateverTheText]_vars

C33_Witness ==
    \E t \in fetched :
        /\ Markdown(TaskUrl(t)) = <<>>
        /\ TaskUrl(t) \notin files
        /\ t \in DOMAIN crawls
        /\ crawls[t].urls = {PageZ}
        /\ (t \o <<PageZ>>) \in fetched
        /\ PageZ \in files

\* the event loop runs every task that is ready, and the fetcher always answers
CrawlFairSpec == CrawlSpecInit /\ [][CrawlNext]_vars /\ WF_vars(CrawlNext)

\* the semaphore slots in use are those of the tasks inside `async with
\* semaphore`: a task that is done, and a crawl that waits for its tasks or for
\* its child crawls, holds none
SlotsHeldOnlyWhileFetching ==
    Running => semaphore + Cardinality(InFlight) = config.threads

\* every process_url task that was created has run to its end
AllTasksDone == \A t \in DOMAIN tasks : tasks[t].pc = "done"

\* C38: the run always comes to its end, under every thread count of the model;
\* semaphore slots are held only by tasks that are fetching, never by one that
\* waits for child crawls; and when main returns (no store raised an exception)
\* every task created has fetched its URL, found it visited or skipped it
C38_CrawlTerminates ==
    /\ <>(main_pc = "exit")
    /\ []SlotsHeldOnlyWhileFetching
    /\ []((main_pc = "returned" /\ store_failures = 0) =>
             (AllTasksDone /\ InFlight = {} /\ semaphore = config.threads))

C38_Witness ==
    /\ main_pc = "exit"
    /\ config.threads = 1
    /\ store_failures = 0
    /\ AllTasksDone
    /\ \E c \in DOMAIN crawls : Len(c) = 3 /\ crawls[c].pc = "done"
    /\ Cardinality(fetched) >= 4


(***************************************************************************)
(* Properties of the buffered strategy: flush records and byte counters    *)
(***************************************************************************)

\* the item that save() appends to the buffer of domain d in this step, if any
AppendedTo(d) ==
    IF /\ last_call'.op = "save"
       /\ n_calls' # n_calls
       /\ Len(save_log') > Len(save_log)
       /\ ~IsBlank(save_log'[Len(save_log')].content)
       /\ SaveDomain(save_log'[Len(save_log')].url) = d
    THEN << save_log'[Len(save_log')] >>
    ELSE <<>>

\* what a flush of domain d made in this step finds in the buffer
Batch(d) == buffers[d] \o AppendedTo(d)

\* the records appended to _saved_files in this step
NewRecords == SubSeq(saved_files', Len(saved_files) + 1, Len(saved_files'))

FlushRecordsItsBatch ==
    IsFilePerDomain =>
        /\ Len(saved_files') >= Len(saved_files)
        /\ SubSeq(saved_files', 1, Len(saved_files)) = saved_files
        /\ \A i \in DOMAIN NewRecords :
              LET r == NewRecords[i]
                  d == r.domain
              IN  /\ Batch(d) # <<>>
                  /\ r.pages = Len(Batch(d))
                  /\ r.size = SumContentLen(Batch(d))
                  /\ r.urls = [k \in 1..Len(Batch(d)) |-> Batch(d)[k].url]
                  /\ buffers'[d] = <<>>
                  /\ buffer_sizes'[d] = 0
                  /\ \A j \in DOMAIN NewRecords : j # i => NewRecords[j].domain # d
        /\ \A d \in Domains :
              (\A i \in DOMAIN NewRecords : NewRecords[i].domain # d) =>
                  /\ buffers'[d] = Batch(d)
                  /\ buffer_sizes'[d] = buffer_sizes[d] + SumContentLen(AppendedTo(d))

\* C34: every flush that succeeds appends one SavedDomainFileInfo for its domain,
\* with pages the number of items of the batch, size the sum of their content
\* lengths and urls their URLs in buffer order, and leaves the domain's buffer
\* empty and its counter 0; the domains that were not flushed keep their buffers
\* and counters (apart from the item the save itself appends)
C34_FlushRecordsBatchAndResets ==
    [][FlushRecordsItsBatch]_vars

C34_Witness ==
    /\ IsFilePerDomain
    /\ last_call.op = "save"
    /\ saved_files # <<>>
    /\ LET r == saved_files[Len(saved_files)]
       IN  /\ r.pages >= 2
           /\ r.size >= 2
           /\ buffers[r.domain] = <<>>
           /\ buffer_sizes[r.domain] = 0
           /\ \E d \in Domains \ {r.domain} : buffers[d] # <<>> /\ buffer_sizes[d] > 0

\* the characters buffered for domain d, counted from the buffer itself
RECURSIVE BufferedChars(_)
BufferedChars(items) ==
    IF items = <<>> THEN 0
    ELSE Len(Head(items).content) + BufferedChars(Tail(items))

\* C39: in every state of the buffered strategy the byte counter of every domain
\* is the sum of the content lengths of the items in that domain's buffer, 0 for
\* an empty buffer, also after a flush that failed
C39_CounterIsSumOfBuffer ==
    IsFilePerDomain =>
        \A d \in Domains :
            /\ buffer_sizes[d] = BufferedChars(buffers[d])
            /\ buffers[d] = <<>> => buffer_sizes[d] = 0

C39_Witness ==
    /\ IsFilePerDomain
    /\ io_failures > 0
    /\ last_call.io_errors > 0
    /\ \E d \in Domains : Len(buffers[d]) >= 2 /\ buffer_sizes[d] >= 2
    /\ saved_files # <<>>


(***************************************************************************)
(* Properties of the run: error exits, dry run, the runners' statistics    *)
(***************************************************************************)

\* the run has ended, with "Crawling completed successfully" or through sys.exit(1)
RunEnded == run.pc \in {"completed", "exit1"}

\* C35 as stated: a run that ends after its strategy was created, also one that
\* ends with exit status 1 because a runner raised, has called finalize, and
\* nothing is left in the buffers (unless a flush of that finalize failed)
C35_FinalizeOnEveryExitPath ==
    (RunEnded /\ PersistenceCreated) =>
        /\ n_finalize = 1
        /\ last_call.io_errors = 0 => NothingBuffered

\* the event loop runs run_crawler to its end
RunFairSpec == RunSpecInit /\ [][RunNext]_vars /\ WF_vars(RunNext)

DryRunTouchesNothing ==
    run.config.dry_run =>
        /\ run.fetches = 0
        /\ n_calls = 0
        /\ save_log = <<>>
        /\ saved_files = <<>>
        /\ \A p \in FilePaths : disk[p] = None
        /\ NothingBuffered
        /\ run.success = 0 /\ run.failed = 0 /\ run.skipped = 0
        /\ run.pc = "exit1" => run.error \in {"config", "ValueError", "crawl"}
        /\ run.error = "crawl" => run.base = "none"

OutputDirCreated == run.pc \in {"persistence", "items", "completed"} => run.output_dir

\* C37: a dry run whose configuration loads, whose strategy name is supported and
\* whose crawler context starts runs to "completed"; the output directory exists
\* from the moment the configuration is loaded; no page and no transcript is
\* fetched, persistence.save is never called and no file is written
C37_DryRunCompletesWithoutFetching ==
    /\ []DryRunTouchesNothing
    /\ []OutputDirCreated
    /\ (run.config.dry_run /\ run.base = "open") ~> (run.pc = "completed")

C37_Witness ==
    /\ run.config.dry_run
    /\ run.pc = "completed"
    /\ run.output_dir
    /\ run.config.youtube # <<>>
    /\ run.config.flat # <<>>
    /\ run.config.deep # <<>>
    /\ run.config.persistence_strategy = "folder_per_domain"
    /\ n_finalize = 1

\* the pages of the runners that the per-page strategy has written
RunnerPagesWritten ==
    Cardinality({ i \in DOMAIN saved_files : saved_files[i].url \in {FlatUrl, DeepUrl} })

\* a step in which a runner adds to stats.success
CountsSuccess == run'.success > run.success

\* C40 as stated: a runner adds to stats.success only in a step whose save
\* returned a path, so with the per-page strategy stats.success never exceeds
\* the number of pages written
C40_SuccessOnlyIfPersisted ==
    /\ [][CountsSuccess => (last_call'.op = "save" /\ last_call'.ret # <<>>)]_vars
    /\ [](IsFolderPerDomain => run.success <= RunnerPagesWritten)


(***************************************************************************)
(* Configuration loading: deduplicate_urls                                 *)
(***************************************************************************)

MaxItems == 3

PageUrl == <<"http://", "h", "/", "a">>

\* the URLs of the items: four spellings of one page, another page, and a URL
\* that urlparse rejects
DedupUrls ==
    { PageUrl,
      PageUrl \o <<"/">>,
      PageUrl \o <<"#", "f">>,
      PageUrl \o <<"?", "utm_source", "=", "x">>,
      <<"http://", "h">>,
      <<"http://", "[", "::1", "/", "a">> }

\* load_config has built config.items (no sitemap among them) and calls
\* deduplicate_urls; max_depth tells the items of one list apart
LoadInit ==
    \E n \in 0..MaxItems :
        \E urls \in [1..n -> DedupUrls] :
            LET items == [i \in 1..n |-> [url |-> urls[i], max_depth |-> i]]
            IN  run = [pc |-> "deduplicate", items |-> items, rest |-> items,
                       seen_urls |-> {}, unique_items |-> <<>>]

\* `normalized_url not in seen_urls` fails: the item is a duplicate
IsDuplicateAsRawCompare(seen_urls, item) == item.url \in seen_urls

IsDuplicate(seen_urls, item) == config_normalize_url(item.url) \in seen_urls

\* one turn of the loop of deduplicate_urls, or its return when the list is
\* exhausted; an exception of normalize_url ends load_config
DeduplicateStep ==
    /\ run.pc = "deduplicate"
    /\ IF run.rest = <<>>
       THEN run' = [run EXCEPT !.pc = "loaded"]
       ELSE LET item == Head(run.rest)
                normalized_url == config_normalize_url(item.url)
            IN  IF normalized_url = ValueError
                THEN run' = [run EXCEPT !.pc = "raised"]
                ELSE IF IsDuplicate(run.seen_urls, item)
                THEN run' = [run EXCEPT !.rest = Tail(@)]
                ELSE run' = [run EXCEPT !.rest = Tail(@),
                                        !.seen_urls = @ \cup {normalized_url},
                                        !.unique_items = Append(@, item)]
    /\ UNCHANGED << pvars, cvars, spawned, uvars, deep_crawl >>

LoadNext == DeduplicateStep

LoadSpecInit ==
    LoadInit /\ PersistIdle /\ CrawlIdle /\ NoSpawn /\ NormalizeIdle /\ DeepCrawlIdle

LoadSpec == LoadSpecInit /\ [][LoadNext]_vars

NormalizedUrlOf(item) == config_normalize_url(item.url)

\* C36: when deduplicate_urls has returned, no two kept items have the same
\* normalized URL; an item is kept exactly when no earlier item of the list has
\* its normalized URL; the kept items are in the order of the list
C36_DedupKeepsFirstOfEachNormalizedUrl ==
    run.pc = "loaded" =>
        LET kept == run.unique_items
            items == run.items
        IN  /\ \A i, j \in DOMAIN kept :
                  i < j => /\ NormalizedUrlOf(kept[i]) # NormalizedUrlOf(kept[j])
                           /\ kept[i].max_depth < kept[j].max_depth
            /\ \A k \in DOMAIN kept : items[kept[k].max_depth] = kept[k]
            /\ \A p \in DOMAIN items :
                  (\E k \in DOMAIN kept : kept[k] = items[p])
                      <=> (\A q \in 1..(p - 1) :
                              NormalizedUrlOf(items[q]) # NormalizedUrlOf(items[p]))

C36_Witness ==
    /\ run.pc = "loaded"
    /\ Len(run.items) = 3
    /\ run.unique_items = << run.items[1], run.items[3] >>
    /\ run.items[1].url # run.items[2].url
    /\ NormalizedUrlOf(run.items[1]) = NormalizedUrlOf(run.items[2])


====
